---- MODULE Spec2Model ----
\* Sidecar supervisor and JSON-RPC bridge of finwatch (src-tauri/src/bridge.rs,
\* bridge_pending.rs, sidecar.rs, jsonrpc.rs) as a state machine.
\*
\* Threads are modelled one action per lock-delimited step: every Mutex in the
\* source is held for one step, except the child lock in kill(), which is held
\* from its acquisition to the end of kill() (variable childLock).
\* Time is the variable now (seconds).  A second may pass between any two
\* steps (action Tick), and a thread that reads Instant::now() before it takes
\* a lock does so in a step of its own, so that time can pass and other threads
\* can act between the reading and the locked section that uses it.
EXTENDS Integers, Sequences, FiniteSets, TLC

\* ---------------------------------------------------------------- bounds
MaxIds == 1          \* request ids handed out by REQUEST_ID
MaxLaunches == 3     \* worker processes launched (spawn + watchdog relaunches)
MaxSpawns == 1       \* calls of SidecarBridge::spawn
MaxUsers == 1        \* threads that call spawn and kill at the same time
MaxLockThreads == 3  \* threads that use the mutexes at the same time
MaxClock == 1        \* seconds that pass in a behaviour of the whole bridge

\* ---------------------------------------------------------------- program constants
REQUEST_TIMEOUT == 31
PING_TIMEOUT == 10
MAX_RESTARTS == 3

Callers == {"c1"}
\* The threads that call spawn and kill: the commands are async and share one
\* bridge, so as many calls can overlap as there are threads.  The threads are
\* interchangeable: thread 1 makes a call that starts while no other call is
\* in progress, thread n + 1 one that overlaps the calls of threads 1..n.
Users == 1..MaxUsers

NoProc == 0
NoUser == 0
NoId == 0
NoWatchdog == 0
Never == -1

\* ---------------------------------------------------------------- supervisor state (sidecar.rs)
Stopped == [k |-> "Stopped", n |-> 0]
Starting == [k |-> "Starting", n |-> 0]
Running == [k |-> "Running", n |-> 0]
Crashed(c) == [k |-> "Crashed", n |-> c]

\* variant: a count equal to the budget still allows a restart
should_restart_inclusive(st, max) == IF st.k = "Crashed" THEN st.n <= max ELSE FALSE

should_restart(st, max) == IF st.k = "Crashed" THEN st.n < max ELSE FALSE

\* variant: every crash starts the count again
record_crash_restarts(st) == Crashed(1)

record_crash(st) == IF st.k = "Crashed" THEN Crashed(st.n + 1) ELSE Crashed(1)

record_started(st) == Running

record_stopped(st) == Stopped

restart_count(st) == IF st.k = "Crashed" THEN st.n ELSE 0

\* ---------------------------------------------------------------- messages on a delivery channel
\* a response line decoded as JsonRpcResponse; body tells which of its optional
\* members result and error are set. It is delivered as Ok(response) whatever they are.
Bodies == {"result", "error", "none", "both"}
Response(id, body) == [tag |-> "Ok", id |-> id, body |-> body]
OkMsg(id) == Response(id, "result")
ErrorReply(id) == Response(id, "error")
\* the response lines a worker may write for the request id
Replies(id) == {OkMsg(id), ErrorReply(id)}
TimeoutMsg(id) == [tag |-> "Err", id |-> id, body |-> "timed out"]
ReasonMsg(reason) == [tag |-> "Err", id |-> NoId, body |-> reason]

CrashReason == "Sidecar process crashed"
KillReason == "Sidecar process killed"

\* ---------------------------------------------------------------- pending table (bridge_pending.rs)
\* The table is a function from the ids it holds to their deadlines; snt maps
\* every registered id to the sequence of messages sent on the channel of its
\* registration.
Insert(tbl, id, deadline) ==
    [i \in (DOMAIN tbl) \cup {id} |-> IF i = id THEN deadline ELSE tbl[i]]

RemoveNothing(tbl, ids) == tbl

Remove(tbl, ids) == [i \in (DOMAIN tbl) \ ids |-> tbl[i]]

\* msgs maps each id to deliver to the message sent on its channel
Deliver(snt, msgs) ==
    [i \in DOMAIN snt |-> IF i \in DOMAIN msgs THEN Append(snt[i], msgs[i]) ELSE snt[i]]

\* register, before the lock: deadline: Instant::now() + timeout
Deadline(t, timeout) == t + timeout

\* register, under the lock: map.insert(id, entry)
RegisterTbl(tbl, id, deadline) == Insert(tbl, id, deadline)

RegisterSent(snt, id) == Insert(snt, id, <<>>)

ResolveFound(tbl, id) == id \in DOMAIN tbl

ResolveTbl(tbl, id) == IF ResolveFound(tbl, id) THEN Remove(tbl, {id}) ELSE tbl

\* variant: resolve delivers a response made from the id, not the one passed
ResolveSentById(tbl, snt, id, response) ==
    IF ResolveFound(tbl, id) THEN Deliver(snt, [i \in {id} |-> OkMsg(i)]) ELSE snt

\* entry.sender.send(Ok(response))
ResolveSent(tbl, snt, id, response) ==
    IF ResolveFound(tbl, id) THEN Deliver(snt, [i \in {id} |-> response]) ELSE snt

\* variant: an entry expires only after its deadline
ExpiredStrictly(tbl, t) == {i \in DOMAIN tbl : t > tbl[i]}

Expired(tbl, t) == {i \in DOMAIN tbl : t >= tbl[i]}

CheckTimeoutsTbl(tbl, t) == Remove(tbl, Expired(tbl, t))

CheckTimeoutsSent(tbl, snt, t) == Deliver(snt, [i \in Expired(tbl, t) |-> TimeoutMsg(i)])

\* variant: fail_all leaves the entries in the table
FailAllKeepsTable(tbl) == tbl

FailAllTbl(tbl) == Remove(tbl, DOMAIN tbl)

FailAllSent(tbl, snt, reason) ==
    Deliver(snt, [i \in DOMAIN tbl |-> ReasonMsg(reason)])

EmptyTbl == [i \in {} |-> 0]

\* ---------------------------------------------------------------- state
VARIABLES
    state,              \* SidecarSupervisor.state (shared by all threads)
    child,              \* SidecarBridge.child: NoProc or the process held
    childLock,          \* holder of the child mutex across kill()'s steps, or NoUser
    stdin_writer,       \* SidecarBridge.stdin_writer: NoProc or the process whose stdin is held
    pending,            \* PendingRequestTracker.pending: id -> deadline
    sent,               \* id -> messages sent on the channel of that id's registration
    watchdog_shutdown,  \* SidecarBridge.watchdog_shutdown: NoWatchdog or the watchdog whose sender is held
    shutdownCh,         \* per watchdog: its shutdown channel [msgs, sender]
    last_pong,          \* SidecarBridge.last_pong: Never or an instant
    now,                \* Instant::now(), in seconds
    nextId,             \* jsonrpc::REQUEST_ID
    proc,               \* worker processes launched so far: "alive" | "exited" | "reaped"
    inbox,              \* per process: ids of the request lines in its stdin pipe
    readers,            \* processes for which spawn_reader_threads was called
    wd,                 \* watchdog threads, one per completed spawn()
    sw,                 \* timeout checker threads
    hc,                 \* health checker threads
    caller,             \* threads calling send_request / send_notification
    user,               \* threads calling spawn / kill
    registered,         \* history: ids ever registered in the table
    written,            \* history: ids of the send_request / ping lines written to a worker
    last_call,          \* history: the last direct call of an operation and what it returned
    poisoned,           \* the mutexes poisoned by a holder that panicked
    lk,                 \* per thread: the lock protocol it runs and how far it has got in it
    outbox,             \* per process: the response lines in its stdout pipe, not yet read
    log_level           \* the most verbose level the tracing subscriber lets through, or "off"

vars == <<state, child, childLock, stdin_writer, pending, sent, watchdog_shutdown,
          shutdownCh, last_pong, now, nextId, proc, inbox, readers,
          wd, sw, hc, caller, user, registered, written, last_call, poisoned, lk, outbox,
          log_level>>

NoMsg == [tag |-> "None", id |-> NoId, body |-> ""]
OkUnit == [tag |-> "Ok", id |-> NoId, body |-> ""]
Err(text) == [tag |-> "Err", id |-> NoId, body |-> text]

IdleCaller == [pc |-> "idle", id |-> NoId, dl |-> 0, rdl |-> 0, res |-> NoMsg]
IdleUser == [pc |-> "idle", p |-> NoProc]
NewWatchdog ==
    [pc |-> "top", p |-> NoProc, log |-> <<>>, crashes |-> 0, failed |-> FALSE]
ExitedWatchdog ==
    [pc |-> "exit", p |-> NoProc, log |-> <<>>, crashes |-> 0, failed |-> FALSE]
\* a health checker thread started; t is the instant it read for last_pong
NewHealth == [pc |-> "init", id |-> NoId, dl |-> 0, rdl |-> 0, t |-> 0]
\* a timeout checker asleep; t is the instant its check_timeouts call read
NewSweeper == [pc |-> "sleep", t |-> 0]

\* a call of a tracker operation: its arguments and its return value
Call(op, id, arg, ret) == [op |-> op, id |-> id, arg |-> arg, ret |-> ret]
NoCall == Call("", NoId, NoMsg, FALSE)

\* spawn or kill returned res to its caller
Returned(op, res) == Call(op, NoId, res, res.tag = "Ok")

\* u may begin a call: a later thread only while the earlier ones are inside one
MayCall(u) == user[u].pc = "idle" /\ \A v \in 1..(u - 1) : user[v].pc # "idle"

\* The threads that use the mutexes of the bridge at the same time.  Each is
\* any thread of the program: a caller of spawn, kill, send_request,
\* send_notification or is_healthy, or one of the background loops, of which
\* there is one set per spawn call.
LockThreads == 1..MaxLockThreads

\* no thread is inside a sequence of lock operations
IdleLocks == [t \in LockThreads |-> [prog |-> "", at |-> 0]]

\* SidecarBridge::new
\* tracing levels, and "off" for a process without a subscriber (lib.rs 16-29)
LogLevels == {"off", "error", "warn", "info", "debug", "trace"}

\* EnvFilter::new("finwatch=info"), used when RUST_LOG gives no filter
DefaultLevel == "info"

Verbosity(level) ==
    CASE level = "off" -> 0
      [] level = "error" -> 1
      [] level = "warn" -> 2
      [] level = "info" -> 3
      [] level = "debug" -> 4
      [] level = "trace" -> 5

\* an event macro of this level evaluates its fields and emits
Enabled(level) == level # "off" /\ Verbosity(level) <= Verbosity(log_level)

Init ==
    /\ state = Stopped
    /\ child = NoProc
    /\ childLock = NoUser
    /\ stdin_writer = NoProc
    /\ pending = EmptyTbl
    /\ sent = EmptyTbl
    /\ watchdog_shutdown = NoWatchdog
    /\ shutdownCh = <<>>
    /\ last_pong = Never
    /\ now = 0
    /\ nextId = 1
    /\ proc = <<>>
    /\ inbox = <<>>
    /\ readers = {}
    /\ wd = <<>>
    /\ sw = <<>>
    /\ hc = <<>>
    /\ caller = [c \in Callers |-> IdleCaller]
    /\ user = [u \in Users |-> IdleUser]
    /\ registered = {}
    /\ written = {}
    /\ last_call = NoCall
    /\ poisoned = {}
    /\ lk = IdleLocks
    /\ outbox = [p \in DOMAIN proc |-> {}]
    /\ log_level = DefaultLevel

is_running == state = Running

\* variant: a silence of exactly max_silence still counts as healthy
match_last_pong_inclusive(max_silence) ==
    IF last_pong = Never THEN TRUE ELSE now - last_pong <= max_silence

\* the match on *last_pong.lock(): last.elapsed() < max_silence, or true with no pong yet
match_last_pong(max_silence) ==
    IF last_pong = Never THEN TRUE ELSE now - last_pong < max_silence

\* SidecarBridge::is_healthy called while no other thread acts
is_healthy(max_silence) ==
    IF ~is_running THEN FALSE ELSE match_last_pong(max_silence)

\* spawn_child_process succeeded: a new process with empty pipes
Launch ==
    /\ proc' = Append(proc, "alive")
    /\ inbox' = Append(inbox, {})
    /\ outbox' = Append(outbox, {})

\* stdin.write_all + flush of one request line on the handle h
WriteOk(h) == h # NoProc /\ proc[h] = "alive"

\* ---------------------------------------------------------------- send_request (bridge.rs 395-434)
\* variant: the Running check is missing
send_request_check_unguarded(c) ==
    /\ caller[c].pc = "idle"
    /\ nextId <= MaxIds
    /\ caller' = [caller EXCEPT ![c].pc = "register", ![c].id = nextId,
                                ![c].res = NoMsg]
    /\ nextId' = nextId + 1
    /\ UNCHANGED <<state, child, childLock, stdin_writer, pending, sent,
                   watchdog_shutdown, shutdownCh, last_pong, now, proc, inbox,
                   readers, wd, sw, hc, user, registered, written, last_call, poisoned, lk, outbox, log_level>>

\* variant: the line is written without registering the id first
send_request_check_then_write(c) ==
    /\ caller[c].pc = "idle"
    /\ IF ~is_running
       THEN /\ caller' = [caller EXCEPT ![c].res = Err("Sidecar not running")]
            /\ UNCHANGED nextId
       ELSE /\ nextId <= MaxIds
            /\ caller' = [caller EXCEPT ![c].pc = "write", ![c].id = nextId,
                                        ![c].res = NoMsg]
            /\ nextId' = nextId + 1
    /\ UNCHANGED <<state, child, childLock, stdin_writer, pending, sent,
                   watchdog_shutdown, shutdownCh, last_pong, now, proc, inbox,
                   readers, wd, sw, hc, user, registered, written, last_call, poisoned, lk, outbox, log_level>>

\* is_running check, then JsonRpcRequest::new takes the next id, in a model
\* that follows at most max ids
send_request_check_upto(c, max) ==
    /\ caller[c].pc = "idle"
    /\ IF ~is_running
       THEN /\ caller' = [caller EXCEPT ![c].res = Err("Sidecar not running")]
            /\ UNCHANGED nextId
       ELSE /\ nextId <= max
            /\ caller' = [caller EXCEPT ![c].pc = "register", ![c].id = nextId,
                                        ![c].res = NoMsg]
            /\ nextId' = nextId + 1
    /\ UNCHANGED <<state, child, childLock, stdin_writer, pending, sent, watchdog_shutdown,
                   shutdownCh, last_pong, now, proc, inbox, readers, wd, sw, hc, user,
                   registered, written, last_call, poisoned, lk, outbox, log_level>>

\* is_running check, then JsonRpcRequest::new takes the next id
send_request_check(c) == send_request_check_upto(c, MaxIds)

\* self.pending.register(id, REQUEST_TIMEOUT), up to its lock: the channel is
\* made and the deadline computed from the clock (bridge_pending.rs 31-35)
send_request_deadline(c) ==
    /\ caller[c].pc = "register"
    /\ caller' = [caller EXCEPT ![c].pc = "insert",
                                ![c].dl = Deadline(now, REQUEST_TIMEOUT)]
    /\ UNCHANGED <<state, child, childLock, stdin_writer, pending, sent, watchdog_shutdown,
                   shutdownCh, last_pong, now, nextId, proc, inbox, readers, wd, sw, hc, user,
                   registered, written, last_call, poisoned, lk, outbox, log_level>>

\* register, the locked section: the entry is inserted (bridge_pending.rs 36-39)
send_request_register(c) ==
    /\ caller[c].pc = "insert"
    /\ pending' = RegisterTbl(pending, caller[c].id, caller[c].dl)
    /\ sent' = RegisterSent(sent, caller[c].id)
    /\ registered' = registered \cup {caller[c].id}
    /\ caller' = [caller EXCEPT ![c].pc = "write", ![c].dl = 0]
    /\ UNCHANGED <<state, child, childLock, stdin_writer, watchdog_shutdown, shutdownCh,
                   last_pong, now, nextId, proc, inbox, readers, wd, sw, hc, user, written,
                   last_call, poisoned, lk, outbox, log_level>>

\* the stdin mutex is held by a thread that is inside write_all + flush
StdinLocked ==
    \/ \E c \in Callers : caller[c].pc \in {"writing", "n_writing"}
    \/ \E h \in DOMAIN hc : hc[h].pc = "writing"

\* the stdin lock is taken: "Stdin not available" without a handle, else write_all is called
send_request_write(c) ==
    /\ caller[c].pc = "write"
    /\ ~StdinLocked
    /\ IF stdin_writer = NoProc
       THEN caller' = [caller EXCEPT ![c].pc = "idle", ![c].id = NoId,
                                     ![c].res = Err("Stdin not available")]
       ELSE caller' = [caller EXCEPT ![c].pc = "writing"]
    /\ UNCHANGED <<state, child, childLock, stdin_writer, pending, sent,
                   watchdog_shutdown, shutdownCh, last_pong, now, nextId, proc, inbox, readers, wd, sw, hc, user,
                   registered, written, last_call, poisoned, lk, outbox, log_level>>

\* write_all + flush return, with the stdin lock held until then: the line is
\* in the pipe of a worker that is alive, or the write fails; the lock is released
send_request_write_all(c) ==
    /\ caller[c].pc = "writing"
    /\ IF WriteOk(stdin_writer)
       THEN /\ inbox' = [inbox EXCEPT ![stdin_writer] = @ \cup {caller[c].id}]
            /\ written' = written \cup {caller[c].id}
            /\ caller' = [caller EXCEPT ![c].pc = "recv",
                                        ![c].rdl = now + REQUEST_TIMEOUT]
       ELSE /\ caller' = [caller EXCEPT ![c].pc = "idle", ![c].id = NoId,
                                        ![c].res = Err("Failed to write to stdin")]
            /\ UNCHANGED <<inbox, written>>
    /\ UNCHANGED <<state, child, childLock, stdin_writer, pending, sent,
                   watchdog_shutdown, shutdownCh, last_pong, now, nextId, proc, readers, wd, sw, hc, user,
                   registered, last_call, poisoned, lk, outbox, log_level>>

\* variant: rx.recv() without the timeout
send_request_recv_blocking(c) ==
    /\ caller[c].pc = "recv"
    /\ sent[caller[c].id] # <<>>
    /\ caller' = [caller EXCEPT ![c].pc = "idle", ![c].id = NoId, ![c].rdl = 0,
                                ![c].res = Head(sent[caller[c].id])]
    /\ UNCHANGED <<state, child, childLock, stdin_writer, pending, sent,
                   watchdog_shutdown, shutdownCh, last_pong, now, nextId, proc,
                   inbox, readers, wd, sw, hc, user, registered, written, last_call, poisoned, lk, outbox, log_level>>

\* rx.recv_timeout(REQUEST_TIMEOUT): the first message, or the timeout
send_request_recv(c) ==
    /\ caller[c].pc = "recv"
    /\ IF sent[caller[c].id] # <<>>
       THEN caller' = [caller EXCEPT ![c].pc = "idle", ![c].id = NoId, ![c].rdl = 0,
                                     ![c].res = Head(sent[caller[c].id])]
       ELSE /\ now >= caller[c].rdl
            /\ caller' = [caller EXCEPT ![c].pc = "idle", ![c].id = NoId, ![c].rdl = 0,
                                        ![c].res = Err("recv failed")]
    /\ UNCHANGED <<state, child, childLock, stdin_writer, pending, sent,
                   watchdog_shutdown, shutdownCh, last_pong, now, nextId, proc,
                   inbox, readers, wd, sw, hc, user,
                   registered, written, last_call, poisoned, lk, outbox, log_level>>

\* ---------------------------------------------------------------- send_notification (bridge.rs 437-466)
send_notification_check(c) ==
    /\ caller[c].pc = "idle"
    /\ IF ~is_running
       THEN /\ caller' = [caller EXCEPT ![c].res = Err("Sidecar not running")]
            /\ UNCHANGED nextId
       ELSE /\ nextId <= MaxIds
            /\ caller' = [caller EXCEPT ![c].pc = "n_write", ![c].id = nextId,
                                        ![c].res = NoMsg]
            /\ nextId' = nextId + 1
    /\ UNCHANGED <<state, child, childLock, stdin_writer, pending, sent,
                   watchdog_shutdown, shutdownCh, last_pong, now, proc, inbox, readers, wd, sw, hc, user,
                   registered, written, last_call, poisoned, lk, outbox, log_level>>

\* the stdin lock is taken
send_notification_write(c) ==
    /\ caller[c].pc = "n_write"
    /\ ~StdinLocked
    /\ IF stdin_writer = NoProc
       THEN caller' = [caller EXCEPT ![c].pc = "idle", ![c].id = NoId,
                                     ![c].res = Err("Stdin not available")]
       ELSE caller' = [caller EXCEPT ![c].pc = "n_writing"]
    /\ UNCHANGED <<state, child, childLock, stdin_writer, pending, sent,
                   watchdog_shutdown, shutdownCh, last_pong, now, nextId, proc, inbox, readers, wd, sw, hc, user,
                   registered, written, last_call, poisoned, lk, outbox, log_level>>

\* write_all + flush return, with the stdin lock held until then
send_notification_write_all(c) ==
    /\ caller[c].pc = "n_writing"
    /\ IF WriteOk(stdin_writer)
       THEN /\ inbox' = [inbox EXCEPT ![stdin_writer] = @ \cup {caller[c].id}]
            /\ caller' = [caller EXCEPT ![c].pc = "idle", ![c].id = NoId,
                                        ![c].res = OkUnit]
       ELSE /\ caller' = [caller EXCEPT ![c].pc = "idle", ![c].id = NoId,
                                        ![c].res = Err("Failed to write to stdin")]
            /\ UNCHANGED inbox
    /\ UNCHANGED <<state, child, childLock, stdin_writer, pending, sent,
                   watchdog_shutdown, shutdownCh, last_pong, now, nextId, proc, readers, wd, sw, hc, user,
                   registered, written, last_call, poisoned, lk, outbox, log_level>>

\* ---------------------------------------------------------------- spawn (bridge.rs 167-392)
\* spawn() calls that went past the is_running check: the completed ones started a watchdog
SpawnsBegun ==
    Len(wd) + Cardinality({u \in DOMAIN user : user[u].pc \notin
        {"idle", "k_fail_all", "k_child", "k_stdin", "k_stopped"}})

\* the is_running check, in a model that follows at most max admitted spawn calls
spawn_check_upto(u, max) ==
    /\ MayCall(u)
    /\ is_running \/ SpawnsBegun < max
    /\ IF is_running
       THEN /\ last_call' = Returned("spawn", Err("Sidecar already running"))
            /\ UNCHANGED user
       ELSE /\ user' = [user EXCEPT ![u].pc = "sp_set"]
            /\ UNCHANGED last_call
    /\ UNCHANGED <<state, child, childLock, stdin_writer, pending, sent,
                   watchdog_shutdown, shutdownCh, last_pong, now, nextId, proc,
                   inbox, readers, wd, sw, hc, caller,
                   registered, written, poisoned, lk, outbox, log_level>>

\* the is_running check
spawn_check(u) == spawn_check_upto(u, MaxSpawns)

\* self.supervisor.set_state(SidecarState::Starting)
spawn_set_starting(u) ==
    /\ user[u].pc = "sp_set"
    /\ state' = Starting
    /\ user' = [user EXCEPT ![u].pc = "sp_launch"]
    /\ UNCHANGED <<child, childLock, stdin_writer, pending, sent,
                   watchdog_shutdown, shutdownCh, last_pong, now, nextId, proc,
                   inbox, readers, wd, sw, hc, caller,
                   registered, written, last_call, poisoned, lk, outbox, log_level>>

\* spawn_child_process(agent_script)?: the launch succeeds or the error is returned
spawn_launch(u) ==
    /\ user[u].pc = "sp_launch"
    /\ \/ /\ Len(proc) < MaxLaunches
          /\ Launch
          /\ user' = [user EXCEPT ![u].pc = "sp_stdin", ![u].p = Len(proc) + 1]
          /\ UNCHANGED last_call
       \/ /\ user' = [user EXCEPT ![u].pc = "idle"]
          /\ last_call' = Returned("spawn", Err("Failed to spawn agent"))
          /\ UNCHANGED <<proc, inbox, outbox>>
    /\ UNCHANGED <<state, child, childLock, stdin_writer, pending, sent,
                   watchdog_shutdown, shutdownCh, last_pong, now, nextId, readers,
                   wd, sw, hc, caller, registered, written, poisoned, lk, log_level>>

\* *self.stdin_writer.lock() = Some(stdin)
spawn_install_stdin(u) ==
    /\ user[u].pc = "sp_stdin"
    /\ ~StdinLocked
    /\ stdin_writer' = user[u].p
    /\ user' = [user EXCEPT ![u].pc = "sp_child"]
    /\ UNCHANGED <<state, child, childLock, pending, sent, watchdog_shutdown,
                   shutdownCh, last_pong, now, nextId, proc, inbox,
                   readers, wd, sw, hc, caller, registered, written, last_call, poisoned, lk, outbox, log_level>>

\* *self.child.lock() = Some(child)
spawn_install_child(u) ==
    /\ user[u].pc = "sp_child"
    /\ childLock = NoUser
    /\ child' = user[u].p
    /\ user' = [user EXCEPT ![u].pc = "sp_started"]
    /\ UNCHANGED <<state, childLock, stdin_writer, pending, sent, watchdog_shutdown,
                   shutdownCh, last_pong, now, nextId, proc, inbox,
                   readers, wd, sw, hc, caller, registered, written, last_call, poisoned, lk, outbox, log_level>>

\* record_started, spawn_reader_threads, and the timeout checker thread
spawn_record_started(u) ==
    /\ user[u].pc = "sp_started"
    /\ state' = record_started(state)
    /\ readers' = readers \cup {user[u].p}
    /\ sw' = Append(sw, NewSweeper)
    /\ user' = [user EXCEPT ![u].pc = "sp_store"]
    /\ UNCHANGED <<child, childLock, stdin_writer, pending, sent, watchdog_shutdown,
                   shutdownCh, last_pong, now, nextId, proc, inbox,
                   wd, hc, caller, registered, written, last_call, poisoned, lk, outbox, log_level>>

\* the sender held before is dropped when the new one is stored
DropSender(ch, w) == IF w = NoWatchdog THEN ch ELSE [ch EXCEPT ![w].sender = FALSE]

\* store shutdown_tx, start the watchdog and the health checker, return Ok
spawn_store_shutdown(u) ==
    /\ user[u].pc = "sp_store"
    /\ shutdownCh' = Append(DropSender(shutdownCh, watchdog_shutdown),
                            [msgs |-> 0, sender |-> TRUE])
    /\ watchdog_shutdown' = Len(wd) + 1
    /\ wd' = Append(wd, NewWatchdog)
    /\ hc' = Append(hc, NewHealth)
    /\ user' = [user EXCEPT ![u] = IdleUser]
    /\ last_call' = Returned("spawn", OkUnit)
    /\ UNCHANGED <<state, child, childLock, stdin_writer, pending, sent, last_pong,
                   now, nextId, proc, inbox, readers, sw, caller, registered, written, poisoned, lk, outbox, log_level>>

\* ---------------------------------------------------------------- kill (bridge.rs 469-500)
\* tx.send(()) on the sender taken out of watchdog_shutdown; the sender is then dropped
SignalShutdown(ch, w) ==
    IF w = NoWatchdog THEN ch
    ELSE [ch EXCEPT ![w] = [msgs |-> @.msgs + 1, sender |-> FALSE]]

kill_signal(u) ==
    /\ MayCall(u)
    /\ shutdownCh' = SignalShutdown(shutdownCh, watchdog_shutdown)
    /\ watchdog_shutdown' = NoWatchdog
    /\ user' = [user EXCEPT ![u].pc = "k_fail_all"]
    /\ UNCHANGED <<state, child, childLock, stdin_writer, pending, sent, last_pong,
                   now, nextId, proc, inbox, readers, wd, sw, hc, caller, registered, written, last_call, poisoned, lk, outbox, log_level>>

\* self.pending.fail_all("Sidecar process killed")
kill_fail_all(u) ==
    /\ user[u].pc = "k_fail_all"
    /\ pending' = FailAllTbl(pending)
    /\ sent' = FailAllSent(pending, sent, KillReason)
    /\ user' = [user EXCEPT ![u].pc = "k_child"]
    /\ UNCHANGED <<state, child, childLock, stdin_writer, watchdog_shutdown,
                   shutdownCh, last_pong, now, nextId, proc, inbox,
                   readers, wd, sw, hc, caller, registered, written, last_call, poisoned, lk, outbox, log_level>>

\* child.kill() + child.wait() on the process held, or nothing
Reap(ps, p) == IF p = NoProc THEN ps ELSE [ps EXCEPT ![p] = "reaped"]

Drain(ib, p) == IF p = NoProc THEN ib ELSE [ib EXCEPT ![p] = {}]

\* variant: kill() fails when no process is held
kill_child_requires_process(u) ==
    /\ user[u].pc = "k_child"
    /\ childLock = NoUser
    /\ IF child = NoProc
       THEN /\ user' = [user EXCEPT ![u].pc = "idle"]
            /\ last_call' = Returned("kill", Err("Failed to kill"))
            /\ UNCHANGED <<childLock, proc, inbox, child>>
       ELSE /\ childLock' = u
            /\ proc' = Reap(proc, child)
            /\ inbox' = Drain(inbox, child)
            /\ child' = NoProc
            /\ user' = [user EXCEPT ![u].pc = "k_stdin"]
            /\ UNCHANGED last_call
    /\ UNCHANGED <<state, stdin_writer, pending, sent, watchdog_shutdown,
                   shutdownCh, last_pong, now, nextId, readers, wd, sw,
                   hc, caller, registered, written, poisoned, lk, outbox, log_level>>

\* lock child (held to the end of kill), kill and wait, *guard = None
kill_child(u) ==
    /\ user[u].pc = "k_child"
    /\ childLock = NoUser
    /\ childLock' = u
    /\ proc' = Reap(proc, child)
    /\ inbox' = Drain(inbox, child)
    /\ child' = NoProc
    /\ user' = [user EXCEPT ![u].pc = "k_stdin"]
    /\ UNCHANGED <<state, stdin_writer, pending, sent, watchdog_shutdown,
                   shutdownCh, last_pong, now, nextId, readers, wd, sw,
                   hc, caller, registered, written, last_call, poisoned, lk, outbox, log_level>>

\* *self.stdin_writer.lock() = None
kill_clear_stdin(u) ==
    /\ user[u].pc = "k_stdin"
    /\ ~StdinLocked
    /\ stdin_writer' = NoProc
    /\ user' = [user EXCEPT ![u].pc = "k_stopped"]
    /\ UNCHANGED <<state, child, childLock, pending, sent, watchdog_shutdown,
                   shutdownCh, last_pong, now, nextId, proc, inbox,
                   readers, wd, sw, hc, caller, registered, written, last_call, poisoned, lk, outbox, log_level>>

\* self.supervisor.record_stopped(); Ok(()); the child guard is released
kill_record_stopped(u) ==
    /\ user[u].pc = "k_stopped"
    /\ state' = record_stopped(state)
    /\ childLock' = NoUser
    /\ user' = [user EXCEPT ![u].pc = "idle"]
    /\ last_call' = Returned("kill", OkUnit)
    /\ UNCHANGED <<child, stdin_writer, pending, sent, watchdog_shutdown,
                   shutdownCh, last_pong, now, nextId, proc, inbox,
                   readers, wd, sw, hc, caller, registered, written, poisoned, lk, outbox, log_level>>

\* ---------------------------------------------------------------- backoff (sidecar.rs 88-97)
MAX_BACKOFF == 30

Min(a, b) == IF a <= b THEN a ELSE b

\* A u64 is four 16-bit limbs, least significant first.
Limb == 65536

One == <<1, 0, 0, 0>>

U64Max == <<Limb - 1, Limb - 1, Limb - 1, Limb - 1>>

\* x << 1 in 64 bits: the carry out of the top limb is lost
Double(x) ==
    LET d1 == 2 * x[1]
        d2 == 2 * x[2] + d1 \div Limb
        d3 == 2 * x[3] + d2 \div Limb
        d4 == 2 * x[4] + d3 \div Limb
    IN  <<d1 % Limb, d2 % Limb, d3 % Limb, d4 % Limb>>

RECURSIVE Shl(_, _)
Shl(x, k) == IF k = 0 THEN x ELSE Shl(Double(x), k - 1)

\* x.checked_shl(k).unwrap_or(u64::MAX): None when k is 64 or more
checked_shl_or_max(x, k) == IF k < 64 THEN Shl(x, k) ELSE U64Max

\* variant: the cap applies only to values of more than 16 bits
MinSecsWide(x, cap) ==
    IF x[2] = 0 /\ x[3] = 0 /\ x[4] = 0 THEN x[1] ELSE cap

\* Duration::from_secs(x).min(cap), in seconds
MinSecs(x, cap) ==
    IF x[2] = 0 /\ x[3] = 0 /\ x[4] = 0 /\ x[1] <= cap THEN x[1] ELSE cap

backoff_duration(st) ==
    IF restart_count(st) = 0 THEN 1
    ELSE MinSecs(checked_shl_or_max(One, Min(restart_count(st), 31)), MAX_BACKOFF)

\* ---------------------------------------------------------------- watchdog thread (bridge.rs 226-312)
\* shutdown_rx.try_recv().is_ok(): only a message counts, a dropped sender does not
ShutdownReceived(w) == shutdownCh[w].msgs > 0

TakeShutdown(w) == [shutdownCh EXCEPT ![w].msgs = @ - 1]

\* top of the loop: the shutdown check, then the poll sleep
watchdog_try_recv(w) ==
    /\ w \in DOMAIN wd
    /\ wd[w].pc = "top"
    /\ IF ShutdownReceived(w)
       THEN /\ shutdownCh' = TakeShutdown(w)
            /\ wd' = [wd EXCEPT ![w] = ExitedWatchdog]
       ELSE /\ wd' = [wd EXCEPT ![w].pc = "poll"]
            /\ UNCHANGED shutdownCh
    /\ UNCHANGED <<state, child, childLock, stdin_writer, pending, sent,
                   watchdog_shutdown, last_pong, now, nextId, proc, inbox, readers, sw, hc, caller, user,
                   registered, written, last_call, poisoned, lk, outbox, log_level>>

\* child.try_wait() under the child lock: Ok(Some(status)) iff the process has exited
watchdog_poll(w) ==
    /\ w \in DOMAIN wd
    /\ wd[w].pc = "poll"
    /\ childLock = NoUser
    /\ IF child # NoProc /\ proc[child] = "exited"
       THEN /\ proc' = Reap(proc, child)
            /\ child' = NoProc
            /\ wd' = [wd EXCEPT ![w].pc = "fail_all", ![w].log = <<>>]
       ELSE /\ wd' = [wd EXCEPT ![w].pc = "top"]
            /\ UNCHANGED <<proc, child>>
    /\ UNCHANGED <<state, childLock, stdin_writer, pending, sent, watchdog_shutdown,
                   shutdownCh, last_pong, now, nextId, inbox, readers,
                   sw, hc, caller, user, registered, written, last_call, poisoned, lk, outbox, log_level>>

\* variant: the pending requests are not failed on a crash
watchdog_skip_fail_all(w) ==
    /\ w \in DOMAIN wd
    /\ wd[w].pc = "fail_all"
    /\ wd' = [wd EXCEPT ![w].pc = "clear_stdin", ![w].log = Append(@, "fail_all")]
    /\ UNCHANGED <<state, child, childLock, stdin_writer, pending, sent,
                   watchdog_shutdown, shutdownCh, last_pong, now, nextId, proc,
                   inbox, readers, sw, hc, caller, user, registered, written, last_call, poisoned, lk, outbox, log_level>>

\* pending_arc.fail_all("Sidecar process crashed")
watchdog_fail_all(w) ==
    /\ w \in DOMAIN wd
    /\ wd[w].pc = "fail_all"
    /\ pending' = FailAllTbl(pending)
    /\ sent' = FailAllSent(pending, sent, CrashReason)
    /\ wd' = [wd EXCEPT ![w].pc = "clear_stdin", ![w].log = Append(@, "fail_all")]
    /\ UNCHANGED <<state, child, childLock, stdin_writer, watchdog_shutdown,
                   shutdownCh, last_pong, now, nextId, proc, inbox,
                   readers, sw, hc, caller, user, registered, written, last_call, poisoned, lk, outbox, log_level>>

\* *stdin_arc.lock() = None
watchdog_clear_stdin(w) ==
    /\ w \in DOMAIN wd
    /\ wd[w].pc = "clear_stdin"
    /\ ~StdinLocked
    /\ stdin_writer' = NoProc
    /\ wd' = [wd EXCEPT ![w].pc = "record_crash", ![w].log = Append(@, "clear_stdin")]
    /\ UNCHANGED <<state, child, childLock, pending, sent, watchdog_shutdown,
                   shutdownCh, last_pong, now, nextId, proc, inbox,
                   readers, sw, hc, caller, user, registered, written, last_call, poisoned, lk, outbox, log_level>>

\* sup.record_crash()
watchdog_record_crash(w) ==
    /\ w \in DOMAIN wd
    /\ wd[w].pc = "record_crash"
    /\ state' = record_crash(state)
    /\ wd' = [wd EXCEPT ![w].pc = "should_restart", ![w].log = Append(@, "record_crash"),
                        ![w].crashes = @ + 1]
    /\ UNCHANGED <<child, childLock, stdin_writer, pending, sent, watchdog_shutdown,
                   shutdownCh, last_pong, now, nextId, proc, inbox,
                   readers, sw, hc, caller, user, registered, written, last_call, poisoned, lk, outbox, log_level>>

\* if !sup.should_restart() { break; } and then the backoff sleep begins
watchdog_should_restart(w) ==
    /\ w \in DOMAIN wd
    /\ wd[w].pc = "should_restart"
    /\ wd' = IF should_restart(state, MAX_RESTARTS)
             THEN [wd EXCEPT ![w].pc = "backoff"]
             ELSE [wd EXCEPT ![w] = ExitedWatchdog]
    /\ UNCHANGED <<state, child, childLock, stdin_writer, pending, sent,
                   watchdog_shutdown, shutdownCh, last_pong, now, nextId, proc,
                   inbox, readers, sw, hc, caller, user,
                   registered, written, last_call, poisoned, lk, outbox, log_level>>

\* the shutdown check after the backoff sleep
watchdog_after_backoff(w) ==
    /\ w \in DOMAIN wd
    /\ wd[w].pc = "backoff"
    /\ IF ShutdownReceived(w)
       THEN /\ shutdownCh' = TakeShutdown(w)
            /\ wd' = [wd EXCEPT ![w] = ExitedWatchdog]
       ELSE /\ wd' = [wd EXCEPT ![w].pc = "set_starting"]
            /\ UNCHANGED shutdownCh
    /\ UNCHANGED <<state, child, childLock, stdin_writer, pending, sent,
                   watchdog_shutdown, last_pong, now, nextId, proc, inbox, readers, sw, hc, caller, user,
                   registered, written, last_call, poisoned, lk, outbox, log_level>>

\* sup.set_state(SidecarState::Starting)
watchdog_set_starting(w) ==
    /\ w \in DOMAIN wd
    /\ wd[w].pc = "set_starting"
    /\ state' = Starting
    /\ wd' = [wd EXCEPT ![w].pc = "respawn"]
    /\ UNCHANGED <<child, childLock, stdin_writer, pending, sent, watchdog_shutdown,
                   shutdownCh, last_pong, now, nextId, proc, inbox,
                   readers, sw, hc, caller, user, registered, written, last_call, poisoned, lk, outbox, log_level>>

\* match spawn_child_process(&script): Ok goes on to install, Err goes back to the loop top
watchdog_respawn(w) ==
    /\ w \in DOMAIN wd
    /\ wd[w].pc = "respawn"
    /\ \/ /\ Len(proc) < MaxLaunches
          /\ Launch
          /\ wd' = [wd EXCEPT ![w].pc = "in_stdin", ![w].p = Len(proc) + 1,
                              ![w].failed = FALSE]
       \/ /\ wd' = [wd EXCEPT ![w].pc = "top", ![w].log = <<>>, ![w].failed = TRUE]
          /\ UNCHANGED <<proc, inbox, outbox>>
    /\ UNCHANGED <<state, child, childLock, stdin_writer, pending, sent,
                   watchdog_shutdown, shutdownCh, last_pong, now, nextId, readers,
                   sw, hc, caller, user, registered, written, last_call, poisoned, lk, log_level>>

\* *stdin_arc.lock() = Some(new_stdin)
watchdog_install_stdin(w) ==
    /\ w \in DOMAIN wd
    /\ wd[w].pc = "in_stdin"
    /\ ~StdinLocked
    /\ stdin_writer' = wd[w].p
    /\ wd' = [wd EXCEPT ![w].pc = "in_child"]
    /\ UNCHANGED <<state, child, childLock, pending, sent, watchdog_shutdown,
                   shutdownCh, last_pong, now, nextId, proc, inbox,
                   readers, sw, hc, caller, user, registered, written, last_call, poisoned, lk, outbox, log_level>>

\* *child_arc.lock() = Some(new_child)
watchdog_install_child(w) ==
    /\ w \in DOMAIN wd
    /\ wd[w].pc = "in_child"
    /\ childLock = NoUser
    /\ child' = wd[w].p
    /\ wd' = [wd EXCEPT ![w].pc = "started"]
    /\ UNCHANGED <<state, childLock, stdin_writer, pending, sent, watchdog_shutdown,
                   shutdownCh, last_pong, now, nextId, proc, inbox,
                   readers, sw, hc, caller, user, registered, written, last_call, poisoned, lk, outbox, log_level>>

\* sup.record_started(); spawn_reader_threads(new_stdout, new_stderr, ..)
watchdog_record_started(w) ==
    /\ w \in DOMAIN wd
    /\ wd[w].pc = "started"
    /\ state' = record_started(state)
    /\ readers' = readers \cup {wd[w].p}
    /\ wd' = [wd EXCEPT ![w].pc = "top", ![w].p = NoProc, ![w].log = <<>>]
    /\ UNCHANGED <<child, childLock, stdin_writer, pending, sent, watchdog_shutdown,
                   shutdownCh, last_pong, now, nextId, proc, inbox,
                   sw, hc, caller, user, registered, written, last_call, poisoned, lk, outbox, log_level>>

\* ---------------------------------------------------------------- timeout checker thread (bridge.rs 196-210)
\* a thread that left its loop is gone
RemoveAt(seq, i) == SubSeq(seq, 1, i - 1) \o SubSeq(seq, i + 1, Len(seq))

\* after the sleep: break unless Running
timeout_checker_poll(s) ==
    /\ s \in DOMAIN sw
    /\ sw[s].pc = "sleep"
    /\ sw' = IF state # Running THEN RemoveAt(sw, s) ELSE [sw EXCEPT ![s].pc = "now"]
    /\ UNCHANGED <<state, child, childLock, stdin_writer, pending, sent, watchdog_shutdown,
                   shutdownCh, last_pong, now, nextId, proc, inbox, readers, wd, hc, caller,
                   user, registered, written, last_call, poisoned, lk, outbox, log_level>>

\* pending_for_timeout.check_timeouts(), first statement: let now = Instant::now()
timeout_checker_now(s) ==
    /\ s \in DOMAIN sw
    /\ sw[s].pc = "now"
    /\ sw' = [sw EXCEPT ![s] = [pc |-> "sweep", t |-> now]]
    /\ UNCHANGED <<state, child, childLock, stdin_writer, pending, sent, watchdog_shutdown,
                   shutdownCh, last_pong, now, nextId, proc, inbox, readers, wd, hc, caller,
                   user, registered, written, last_call, poisoned, lk, outbox, log_level>>

\* check_timeouts, the locked section: the entries whose deadline is at or
\* before the instant read are removed and sent the timeout error
timeout_checker_sweep(s) ==
    /\ s \in DOMAIN sw
    /\ sw[s].pc = "sweep"
    /\ pending' = CheckTimeoutsTbl(pending, sw[s].t)
    /\ sent' = CheckTimeoutsSent(pending, sent, sw[s].t)
    /\ sw' = [sw EXCEPT ![s] = NewSweeper]
    /\ UNCHANGED <<state, child, childLock, stdin_writer, watchdog_shutdown, shutdownCh,
                   last_pong, now, nextId, proc, inbox, readers, wd, hc, caller, user,
                   registered, written, last_call, poisoned, lk, outbox, log_level>>

\* ---------------------------------------------------------------- health checker thread (bridge.rs 319-389)
\* the initial pong timestamp, the value assigned: Some(Instant::now()) is
\* evaluated before the last_pong mutex is taken
health_init_now(h) ==
    /\ h \in DOMAIN hc
    /\ hc[h].pc = "init"
    /\ hc' = [hc EXCEPT ![h].pc = "init_store", ![h].t = now]
    /\ UNCHANGED <<state, child, childLock, stdin_writer, pending, sent, watchdog_shutdown,
                   shutdownCh, last_pong, now, nextId, proc, inbox, readers, wd, sw,
                   caller, user, registered, written, last_call, poisoned, lk, outbox,
                   log_level>>

\* the initial pong timestamp, the locked section: the instant read is stored
health_init(h) ==
    /\ h \in DOMAIN hc
    /\ hc[h].pc = "init_store"
    /\ last_pong' = hc[h].t
    /\ hc' = [hc EXCEPT ![h].pc = "sleep", ![h].t = 0]
    /\ UNCHANGED <<state, child, childLock, stdin_writer, pending, sent, watchdog_shutdown,
                   shutdownCh, now, nextId, proc, inbox, readers, wd, sw, caller, user,
                   registered, written, last_call, poisoned, lk, outbox, log_level>>

\* after the sleep: exit unless Running, else JsonRpcRequest::new("ping", None),
\* in a model that follows at most max ids
health_poll_upto(h, max) ==
    /\ h \in DOMAIN hc
    /\ hc[h].pc = "sleep"
    /\ IF state # Running
       THEN /\ hc' = RemoveAt(hc, h)
            /\ UNCHANGED nextId
       ELSE /\ nextId <= max
            /\ hc' = [hc EXCEPT ![h].pc = "register", ![h].id = nextId]
            /\ nextId' = nextId + 1
    /\ UNCHANGED <<state, child, childLock, stdin_writer, pending, sent, watchdog_shutdown,
                   shutdownCh, last_pong, now, proc, inbox, readers, wd, sw, caller, user,
                   registered, written, last_call, poisoned, lk, outbox, log_level>>

\* after the sleep: exit unless Running, else JsonRpcRequest::new("ping", None)
health_poll(h) == health_poll_upto(h, MaxIds)

\* pending_for_health.register(ping_id, Duration::from_secs(10)), up to its
\* lock: the channel is made and the deadline computed from the clock
health_deadline(h) ==
    /\ h \in DOMAIN hc
    /\ hc[h].pc = "register"
    /\ hc' = [hc EXCEPT ![h].pc = "insert", ![h].dl = Deadline(now, PING_TIMEOUT)]
    /\ UNCHANGED <<state, child, childLock, stdin_writer, pending, sent, watchdog_shutdown,
                   shutdownCh, last_pong, now, nextId, proc, inbox, readers, wd, sw, caller,
                   user, registered, written, last_call, poisoned, lk, outbox, log_level>>

\* register, the locked section: the entry is inserted
health_register(h) ==
    /\ h \in DOMAIN hc
    /\ hc[h].pc = "insert"
    /\ pending' = RegisterTbl(pending, hc[h].id, hc[h].dl)
    /\ sent' = RegisterSent(sent, hc[h].id)
    /\ registered' = registered \cup {hc[h].id}
    /\ hc' = [hc EXCEPT ![h].pc = "write", ![h].dl = 0]
    /\ UNCHANGED <<state, child, childLock, stdin_writer, watchdog_shutdown, shutdownCh,
                   last_pong, now, nextId, proc, inbox, readers, wd, sw, caller, user, written,
                   last_call, poisoned, lk, outbox, log_level>>

\* the stdin lock is taken: send_ok is false without a handle, else write_all is called
health_write(h) ==
    /\ h \in DOMAIN hc
    /\ hc[h].pc = "write"
    /\ ~StdinLocked
    /\ IF stdin_writer = NoProc
       THEN hc' = [hc EXCEPT ![h].pc = "sleep", ![h].id = NoId]
       ELSE hc' = [hc EXCEPT ![h].pc = "writing"]
    /\ UNCHANGED <<state, child, childLock, stdin_writer, pending, sent,
                   watchdog_shutdown, shutdownCh, last_pong, now, nextId, proc, inbox, readers, wd, sw, caller, user,
                   registered, written, last_call, poisoned, lk, outbox, log_level>>

\* write_all + flush return, with the stdin lock held until then: send_ok
\* is true iff the ping line was written
health_write_all(h) ==
    /\ h \in DOMAIN hc
    /\ hc[h].pc = "writing"
    /\ IF WriteOk(stdin_writer)
       THEN /\ inbox' = [inbox EXCEPT ![stdin_writer] = @ \cup {hc[h].id}]
            /\ written' = written \cup {hc[h].id}
            /\ hc' = [hc EXCEPT ![h].pc = "recv", ![h].rdl = now + PING_TIMEOUT]
       ELSE /\ hc' = [hc EXCEPT ![h].pc = "sleep", ![h].id = NoId]
            /\ UNCHANGED <<inbox, written>>
    /\ UNCHANGED <<state, child, childLock, stdin_writer, pending, sent,
                   watchdog_shutdown, shutdownCh, last_pong, now, nextId, proc, readers, wd, sw, caller, user,
                   registered, last_call, poisoned, lk, outbox, log_level>>

\* rx.recv_timeout(10s): on Ok(Ok(_)), a response delivered whatever it holds,
\* the thread reads the clock for the pong; a delivered error or the timeout
\* is logged
health_recv(h) ==
    /\ h \in DOMAIN hc
    /\ hc[h].pc = "recv"
    /\ IF sent[hc[h].id] # <<>>
       THEN hc' = IF Head(sent[hc[h].id]).tag = "Ok"
                  THEN [hc EXCEPT ![h].pc = "pong", ![h].rdl = 0, ![h].t = now]
                  ELSE [hc EXCEPT ![h].pc = "sleep", ![h].id = NoId, ![h].rdl = 0]
       ELSE /\ now >= hc[h].rdl
            /\ hc' = [hc EXCEPT ![h].pc = "sleep", ![h].id = NoId, ![h].rdl = 0]
    /\ UNCHANGED <<state, child, childLock, stdin_writer, pending, sent, watchdog_shutdown,
                   shutdownCh, last_pong, now, nextId, proc, inbox, readers, wd, sw,
                   caller, user, registered, written, last_call, poisoned, lk, outbox,
                   log_level>>

\* the pong is recorded: the last_pong mutex is taken and the instant read
\* when recv_timeout returned is stored
health_record_pong(h) ==
    /\ h \in DOMAIN hc
    /\ hc[h].pc = "pong"
    /\ last_pong' = hc[h].t
    /\ hc' = [hc EXCEPT ![h].pc = "sleep", ![h].id = NoId, ![h].t = 0]
    /\ UNCHANGED <<state, child, childLock, stdin_writer, pending, sent, watchdog_shutdown,
                   shutdownCh, now, nextId, proc, inbox, readers, wd, sw, caller, user,
                   registered, written, last_call, poisoned, lk, outbox, log_level>>

\* ---------------------------------------------------------------- the worker process and its stdout reader
\* the worker exits by itself; what it wrote to its stdout stays in the pipe
worker_exit(p) ==
    /\ p \in DOMAIN proc
    /\ proc[p] = "alive"
    /\ proc' = [proc EXCEPT ![p] = "exited"]
    /\ inbox' = Drain(inbox, p)
    /\ UNCHANGED <<state, child, childLock, stdin_writer, pending, sent,
                   watchdog_shutdown, shutdownCh, last_pong, now, nextId, readers, wd, sw, hc, caller, user,
                   registered, written, last_call, poisoned, lk, outbox, log_level>>

\* the worker reads a request line from its stdin and writes a response line
\* for it to its stdout: a result, or a JSON-RPC error object
worker_answer(p, r) ==
    /\ p \in DOMAIN proc
    /\ proc[p] = "alive"
    /\ r.id \in inbox[p]
    /\ inbox' = [inbox EXCEPT ![p] = @ \ {r.id}]
    /\ outbox' = [outbox EXCEPT ![p] = @ \cup {r}]
    /\ UNCHANGED <<state, child, childLock, stdin_writer, pending, sent, watchdog_shutdown,
                   shutdownCh, last_pong, now, nextId, proc, readers, wd, sw, hc, caller, user,
                   registered, written, last_call, poisoned, lk, log_level>>

\* the stdout reader (bridge.rs 80-121) reads a response line, which has a
\* numeric id, and hands it to pending.resolve; it reads until the pipe is
\* empty and closed, so also after the worker is gone
stdout_reader(p, r) ==
    /\ p \in DOMAIN proc
    /\ p \in readers
    /\ r \in outbox[p]
    /\ outbox' = [outbox EXCEPT ![p] = @ \ {r}]
    /\ pending' = ResolveTbl(pending, r.id)
    /\ sent' = ResolveSent(pending, sent, r.id, r)
    /\ UNCHANGED <<state, child, childLock, stdin_writer, watchdog_shutdown, shutdownCh,
                   last_pong, now, nextId, proc, inbox, readers, wd, sw, hc, caller, user,
                   registered, written, last_call, poisoned, lk, log_level>>

\* ---------------------------------------------------------------- time
\* Instant::now() grows by itself: a second passes, between any two steps of
\* the threads, until MaxClock seconds have passed
Tick ==
    /\ now < MaxClock
    /\ now' = now + 1
    /\ UNCHANGED <<state, child, childLock, stdin_writer, pending, sent, watchdog_shutdown,
                   shutdownCh, last_pong, nextId, proc, inbox, readers, wd, sw, hc, caller,
                   user, registered, written, last_call, poisoned, lk, outbox, log_level>>

\* ---------------------------------------------------------------- the bridge
CallerStep(c) ==
    \/ send_request_check(c)
    \/ send_request_deadline(c)
    \/ send_request_register(c)
    \/ send_request_write(c)
    \/ send_request_write_all(c)
    \/ send_request_recv(c)
    \/ send_notification_check(c)
    \/ send_notification_write(c)
    \/ send_notification_write_all(c)

UserStep(u) ==
    \/ spawn_check(u)
    \/ spawn_set_starting(u)
    \/ spawn_launch(u)
    \/ spawn_install_stdin(u)
    \/ spawn_install_child(u)
    \/ spawn_record_started(u)
    \/ spawn_store_shutdown(u)
    \/ kill_signal(u)
    \/ kill_fail_all(u)
    \/ kill_child(u)
    \/ kill_clear_stdin(u)
    \/ kill_record_stopped(u)

WatchdogStep(w) ==
    \/ watchdog_try_recv(w)
    \/ watchdog_poll(w)
    \/ watchdog_fail_all(w)
    \/ watchdog_clear_stdin(w)
    \/ watchdog_record_crash(w)
    \/ watchdog_should_restart(w)
    \/ watchdog_after_backoff(w)
    \/ watchdog_set_starting(w)
    \/ watchdog_respawn(w)
    \/ watchdog_install_stdin(w)
    \/ watchdog_install_child(w)
    \/ watchdog_record_started(w)

SweeperStep(s) ==
    \/ timeout_checker_poll(s)
    \/ timeout_checker_now(s)
    \/ timeout_checker_sweep(s)

HealthStep(h) ==
    \/ health_init_now(h)
    \/ health_init(h)
    \/ health_poll(h)
    \/ health_deadline(h)
    \/ health_register(h)
    \/ health_write(h)
    \/ health_write_all(h)
    \/ health_recv(h)
    \/ health_record_pong(h)

WorkerStep(p) ==
    \/ worker_exit(p)
    \/ \E id \in 1..MaxIds : \E r \in Replies(id) : worker_answer(p, r)

ReaderStep(p) == \E id \in 1..MaxIds : \E r \in Replies(id) : stdout_reader(p, r)

Next ==
    \/ \E c \in Callers : CallerStep(c)
    \/ \E u \in Users : UserStep(u)
    \/ \E w \in 1..MaxSpawns : WatchdogStep(w)
    \/ \E s \in 1..MaxSpawns : SweeperStep(s)
    \/ \E h \in 1..MaxSpawns : HealthStep(h)
    \/ \E p \in 1..MaxLaunches : WorkerStep(p)
    \/ \E p \in 1..MaxLaunches : ReaderStep(p)
    \/ Tick

Spec == Init /\ [][Next]_vars

\* ---------------------------------------------------------------- the tracker alone
\* PendingRequestTracker driven directly: one thread calls register, one
\* calls check_timeouts, and resolve and fail_all are called by others at any
\* point.  register and check_timeouts read the clock before they take the
\* table mutex, so each is two steps; resolve and fail_all are one locked
\* section each.
MaxTrackerIds == 3
MaxTrackerClock == 3  \* seconds that pass in a behaviour of the tracker
MaxTimeout == 2       \* the short timeouts passed to register, in seconds

\* the timeouts passed to register: short ones, which run out while the
\* tracker is used, and the two that the bridge passes
TrackerTimeouts == (1..MaxTimeout) \cup {PING_TIMEOUT, REQUEST_TIMEOUT}

\* PendingRequestTracker::new, with the thread that will call check_timeouts
InitTracker ==
    /\ state = Stopped
    /\ child = NoProc /\ childLock = NoUser /\ stdin_writer = NoProc
    /\ pending = EmptyTbl /\ sent = EmptyTbl
    /\ watchdog_shutdown = NoWatchdog /\ shutdownCh = <<>>
    /\ last_pong = Never /\ now = 0 /\ nextId = 1
    /\ proc = <<>> /\ inbox = <<>> /\ outbox = <<>> /\ readers = {}
    /\ wd = <<>> /\ sw = <<NewSweeper>> /\ hc = <<>>
    /\ caller = [c \in Callers |-> IdleCaller]
    /\ user = [u \in Users |-> IdleUser]
    /\ registered = {} /\ written = {}
    /\ last_call = NoCall
    /\ poisoned = {}
    /\ lk = IdleLocks
    /\ log_level = DefaultLevel

\* register(id, timeout), up to its lock: the deadline is computed from the clock
tr_register_deadline(c, timeout) ==
    /\ caller[c].pc = "idle"
    /\ nextId <= MaxTrackerIds
    /\ caller' = [caller EXCEPT ![c].pc = "insert", ![c].id = nextId,
                                ![c].dl = Deadline(now, timeout)]
    /\ nextId' = nextId + 1
    /\ UNCHANGED <<state, child, childLock, stdin_writer, pending, sent, watchdog_shutdown,
                   shutdownCh, last_pong, now, proc, inbox, readers, wd, sw, hc, user,
                   registered, written, last_call, poisoned, lk, outbox, log_level>>

\* register, the locked section
tr_register(c) ==
    /\ caller[c].pc = "insert"
    /\ pending' = RegisterTbl(pending, caller[c].id, caller[c].dl)
    /\ sent' = RegisterSent(sent, caller[c].id)
    /\ registered' = registered \cup {caller[c].id}
    /\ caller' = [caller EXCEPT ![c] = IdleCaller]
    /\ last_call' = Call("register", caller[c].id, NoMsg, TRUE)
    /\ UNCHANGED <<state, child, childLock, stdin_writer, watchdog_shutdown, shutdownCh,
                   last_pong, now, nextId, proc, inbox, readers, wd, sw, hc, user, written,
                   poisoned, lk, outbox, log_level>>

\* the responses passed to resolve: the response's own id field need not be
\* the id it is resolved under
Responses == {OkMsg(i) : i \in 1..MaxTrackerIds}

tr_resolve(id, response) ==
    /\ pending' = ResolveTbl(pending, id)
    /\ sent' = ResolveSent(pending, sent, id, response)
    /\ last_call' = Call("resolve", id, response, ResolveFound(pending, id))
    /\ UNCHANGED <<state, child, childLock, stdin_writer, watchdog_shutdown, shutdownCh,
                   last_pong, now, nextId, proc, inbox, readers, wd, sw, hc, caller, user,
                   registered, written, poisoned, lk, outbox, log_level>>

\* check_timeouts, first statement: let now = Instant::now()
tr_check_timeouts_now(s) ==
    /\ s \in DOMAIN sw
    /\ sw[s].pc = "sleep"
    /\ sw' = [sw EXCEPT ![s] = [pc |-> "sweep", t |-> now]]
    /\ UNCHANGED <<state, child, childLock, stdin_writer, pending, sent, watchdog_shutdown,
                   shutdownCh, last_pong, now, nextId, proc, inbox, readers, wd, hc, caller,
                   user, registered, written, last_call, poisoned, lk, outbox, log_level>>

\* check_timeouts, the locked section; the call records the instant it had read
tr_check_timeouts(s) ==
    /\ s \in DOMAIN sw
    /\ sw[s].pc = "sweep"
    /\ pending' = CheckTimeoutsTbl(pending, sw[s].t)
    /\ sent' = CheckTimeoutsSent(pending, sent, sw[s].t)
    /\ sw' = [sw EXCEPT ![s] = NewSweeper]
    /\ last_call' = Call("check_timeouts", sw[s].t, NoMsg, TRUE)
    /\ UNCHANGED <<state, child, childLock, stdin_writer, watchdog_shutdown, shutdownCh,
                   last_pong, now, nextId, proc, inbox, readers, wd, hc, caller, user,
                   registered, written, poisoned, lk, outbox, log_level>>

\* fail_all(reason); the call records how many of the entries it found had
\* reached their deadline when it ran
tr_fail_all(reason) ==
    /\ pending' = FailAllTbl(pending)
    /\ sent' = FailAllSent(pending, sent, reason)
    /\ last_call' = Call("fail_all", Cardinality(Expired(pending, now)),
                         ReasonMsg(reason), TRUE)
    /\ UNCHANGED <<state, child, childLock, stdin_writer, watchdog_shutdown, shutdownCh,
                   last_pong, now, nextId, proc, inbox, readers, wd, sw, hc, caller, user,
                   registered, written, poisoned, lk, outbox, log_level>>

\* a second passes
tr_elapse ==
    /\ now < MaxTrackerClock
    /\ now' = now + 1
    /\ UNCHANGED <<state, child, childLock, stdin_writer, pending, sent, watchdog_shutdown,
                   shutdownCh, last_pong, nextId, proc, inbox, readers, wd, sw, hc, caller,
                   user, registered, written, last_call, poisoned, lk, outbox, log_level>>

NextTracker ==
    \/ \E c \in Callers : \E timeout \in TrackerTimeouts : tr_register_deadline(c, timeout)
    \/ \E c \in Callers : tr_register(c)
    \/ \E id \in 1..MaxTrackerIds : \E response \in Responses : tr_resolve(id, response)
    \/ tr_check_timeouts_now(1)
    \/ tr_check_timeouts(1)
    \/ \E reason \in {CrashReason, KillReason} : tr_fail_all(reason)
    \/ tr_elapse

SpecTracker == InitTracker /\ [][NextTracker]_vars

\* ---------------------------------------------------------------- one request on a running bridge
\* the instants some thread or table entry waits for
Deadlines ==
    {pending[i] : i \in DOMAIN pending}
        \cup {caller[c].rdl : c \in {x \in Callers : caller[x].pc = "recv"}}
        \cup {hc[h].rdl : h \in {x \in DOMAIN hc : hc[x].pc = "recv"}}

MaxRequestClock == 1  \* seconds that pass one by one

\* the instants time moves to in one step: the next second up to
\* MaxRequestClock, and any instant some thread or table entry waits for
Instants ==
    {t \in {now + 1} : t <= MaxRequestClock} \cup {d \in Deadlines : d > now}

\* time in these behaviours: no thread acts in the seconds between now and the
\* instant time moves to, and every timed wait can run out
rq_elapse ==
    /\ \E t \in Instants : now' = t
    /\ UNCHANGED <<state, child, childLock, stdin_writer, pending, sent, watchdog_shutdown,
                   shutdownCh, last_pong, nextId, proc, inbox, readers, wd, sw, hc, caller,
                   user, registered, written, last_call, poisoned, lk, outbox, log_level>>

\* request ids handed out in these behaviours: one for the request, one for a ping
MaxRequestIds == 2

\* the bridge when spawn has returned Ok and worker 1 runs: the threads spawn
\* started have taken no step
InitRequest ==
    /\ state = Running
    /\ proc = <<"alive">> /\ inbox = <<{}>> /\ outbox = <<{}>> /\ readers = {1}
    /\ child = 1 /\ childLock = NoUser /\ stdin_writer = 1
    /\ pending = EmptyTbl /\ sent = EmptyTbl
    /\ watchdog_shutdown = 1 /\ shutdownCh = <<[msgs |-> 0, sender |-> TRUE]>>
    /\ now = 0 /\ last_pong = Never /\ nextId = 1
    /\ wd = <<NewWatchdog>> /\ sw = <<NewSweeper>> /\ hc = <<NewHealth>>
    /\ caller = [c \in Callers |-> IdleCaller]
    /\ user = [u \in Users |-> IdleUser]
    /\ registered = {} /\ written = {}
    /\ last_call = NoCall
    /\ poisoned = {}
    /\ lk = IdleLocks
    /\ log_level = DefaultLevel

\* the caller's thread calls send_request
RequestCallerStep(c) ==
    \/ send_request_check_upto(c, MaxRequestIds)
    \/ send_request_deadline(c)
    \/ send_request_register(c)
    \/ send_request_write(c)
    \/ send_request_write_all(c)
    \/ send_request_recv(c)

\* the watchdog loop while the worker runs: the shutdown check and the poll
RequestWatchdogStep(w) ==
    \/ watchdog_try_recv(w)
    \/ watchdog_poll(w)

RequestHealthStep(h) ==
    \/ health_init_now(h)
    \/ health_init(h)
    \/ health_poll_upto(h, MaxRequestIds)
    \/ health_deadline(h)
    \/ health_register(h)
    \/ health_write(h)
    \/ health_write_all(h)
    \/ health_recv(h)
    \/ health_record_pong(h)

\* send_request beside the threads of the bridge (the reader, the timeout
\* checker, the watchdog, the health checker) and the worker. Of the
\* behaviours of the bridge those are followed in which the worker does not
\* exit and kill is not called, so that the watchdog finds the worker running
\* at every poll; the worker answers a line or leaves it unanswered.
NextRequest ==
    \/ \E c \in Callers : RequestCallerStep(c)
    \/ \E w \in 1..MaxSpawns : RequestWatchdogStep(w)
    \/ \E s \in 1..MaxSpawns : SweeperStep(s)
    \/ \E h \in 1..MaxSpawns : RequestHealthStep(h)
    \/ \E id \in 1..MaxRequestIds : \E r \in Replies(id) : worker_answer(1, r)
    \/ \E id \in 1..MaxRequestIds : \E r \in Replies(id) : stdout_reader(1, r)
    \/ rq_elapse

SpecRequest == InitRequest /\ [][NextRequest]_vars

\* ---------------------------------------------------------------- fairness
\* Every thread of a call in progress is scheduled, a thread that keeps finding
\* the stdin mutex free gets it, and time passes.  write_all returns at once
\* when the write fails; while the worker is alive it returns when the pipe
\* has room for the line, which depends on the worker reading its stdin, so
\* nothing obliges that step to happen, in send_request or in the health
\* checker's ping, and the thread in write_all keeps the stdin mutex.
FairSpec ==
    /\ SpecRequest
    /\ \A c \in Callers :
          /\ WF_vars(send_request_deadline(c))
          /\ WF_vars(send_request_register(c))
          /\ SF_vars(send_request_write(c))
          /\ WF_vars(send_request_write_all(c) /\ ~WriteOk(stdin_writer))
          /\ WF_vars(send_request_recv(c))
    /\ WF_vars(rq_elapse)

\* ---------------------------------------------------------------- properties
KillPcs == {"k_fail_all", "k_child", "k_stdin", "k_stopped"}

\* no user thread is inside spawn or kill
UsersIdle == \A u \in DOMAIN user : user[u].pc = "idle"

\* the last spawn or kill call to return was a kill, it returned Ok, and no
\* spawn or kill call has begun since
KillReturned == last_call = Returned("kill", OkUnit) /\ UsersIdle

\* the bridge as kill leaves it
StoppedBridge ==
    /\ state = Stopped
    /\ child = NoProc
    /\ stdin_writer = NoProc
    /\ watchdog_shutdown = NoWatchdog

\* C1: every registered id is either still in the table with nothing sent on
\* its channel, or out of the table with exactly one message sent on its
\* channel, whatever the order of resolve, check_timeouts and fail_all calls:
\* the call that removes the entry sends, every other call finds no entry and
\* sends nothing.
C1_ExactlyOneDelivery ==
    \A id \in registered :
        \/ id \in DOMAIN pending /\ sent[id] = <<>>
        \/ id \notin DOMAIN pending /\ Len(sent[id]) = 1

\* three registrations, each removed by a different operation, after all
\* operations ran
C1_Witness ==
    /\ pending = EmptyTbl
    /\ \E i, j, k \in registered :
          /\ sent[i] = <<OkMsg(i)>>
          /\ sent[j] = <<TimeoutMsg(j)>>
          /\ sent[k] = <<ReasonMsg(CrashReason)>>

\* C2: a send_request or send_notification call made while the state is not
\* Running returns "Sidecar not running" at once, takes no id, registers
\* nothing and writes nothing to the worker.
C2_NotRunningRejected ==
    [][\A c \in Callers :
          (caller[c].pc = "idle" /\ caller'[c] # caller[c] /\ ~is_running)
              => /\ caller'[c].pc = "idle"
                 /\ caller'[c].res = Err("Sidecar not running")
                 /\ pending' = pending
                 /\ registered' = registered
                 /\ inbox' = inbox
                 /\ written' = written
                 /\ nextId' = nextId]_vars

\* a call rejected after the worker crashed, following an admitted request
C2_Witness ==
    \E c \in Callers :
        /\ caller[c].pc = "idle"
        /\ caller[c].res = Err("Sidecar not running")
        /\ state.k = "Crashed"
        /\ written # {}
        /\ pending = EmptyTbl

\* C3: the id of every send_request or ping line written to the worker was
\* registered in the pending table before the write, so a response to a
\* written request never meets a table that has not seen its id.
C3_RegisteredBeforeWritten ==
    /\ written \subseteq registered
    /\ \A p \in DOMAIN inbox : inbox[p] \cap written \subseteq registered
    /\ \A c \in Callers : caller[c].pc = "recv" => caller[c].id \in registered
    /\ \A h \in DOMAIN hc : hc[h].pc = "recv" => hc[h].id \in registered

\* a request was written and is waiting for its response, its entry in the table
C3_Witness ==
    \E c \in Callers :
        /\ caller[c].pc = "recv"
        /\ caller[c].id \in written
        /\ caller[c].id \in DOMAIN pending
        /\ \E p \in DOMAIN inbox : caller[c].id \in inbox[p]

\* C4: every send_request call that passed the Running check returns.
C4_EveryRequestReturns ==
    \A c \in Callers : (caller[c].pc = "register") ~> (caller[c].pc = "idle")

\* the order in which the watchdog handles a detected exit
CrashOrder == <<"fail_all", "clear_stdin", "record_crash">>

IsPrefix(s, t) == Len(s) <= Len(t) /\ SubSeq(t, 1, Len(s)) = s

\* C5: after the watchdog poll that finds the worker exited, the watchdog
\* fails every pending request with the crash reason, then clears the stdin
\* handle, then records the crash, which turns Running into Crashed(1); a
\* relaunch that succeeds installs the new stdin handle, then the new child
\* handle, then sets the state to Running and starts readers for the new process.
C5_CrashHandling ==
    /\ [](\A w \in DOMAIN wd : IsPrefix(wd[w].log, CrashOrder))
    /\ [][\A w \in DOMAIN wd :
            /\ (wd[w].pc = "poll" /\ wd'[w].pc = "fail_all")
                 => (proc[child] = "exited" /\ child' = NoProc)
            /\ (wd[w].pc = "fail_all" /\ wd'[w].pc # "fail_all")
                 => /\ wd'[w].pc = "clear_stdin"
                    /\ pending' = EmptyTbl
                    /\ \A i \in DOMAIN pending :
                          sent'[i] = Append(sent[i], ReasonMsg(CrashReason))
            /\ (wd[w].pc = "clear_stdin" /\ wd'[w].pc # "clear_stdin")
                 => (wd'[w].pc = "record_crash" /\ stdin_writer' = NoProc)
            /\ (wd[w].pc = "record_crash" /\ wd'[w].pc # "record_crash" /\ state = Running)
                 => state' = Crashed(1)
            /\ (wd[w].pc = "respawn" /\ wd'[w].pc = "in_stdin")
                 => (wd'[w].p \notin DOMAIN proc /\ proc'[wd'[w].p] = "alive")
            /\ (wd[w].pc = "in_stdin" /\ wd'[w].pc # "in_stdin")
                 => (wd'[w].pc = "in_child" /\ stdin_writer' = wd[w].p)
            /\ (wd[w].pc = "in_child" /\ wd'[w].pc # "in_child")
                 => (wd'[w].pc = "started" /\ child' = wd[w].p)
            /\ (wd[w].pc = "started" /\ wd'[w].pc # "started")
                 => (state' = Running /\ wd[w].p \in readers')]_vars

\* a caller was failed with the crash reason, and the worker was relaunched:
\* the state is Running again with the handles of the second process
C5_Witness ==
    /\ state = Running
    /\ Len(proc) = 2 /\ proc[1] = "reaped" /\ proc[2] = "alive"
    /\ child = 2 /\ stdin_writer = 2 /\ 2 \in readers
    /\ \E w \in DOMAIN wd : wd[w].crashes = 1 /\ wd[w].pc = "top"
    /\ \E c \in Callers : caller[c].res = ReasonMsg(CrashReason)

\* kill has not signalled the watchdog w and no spawn has replaced its sender
Unsignalled(w) == watchdog_shutdown = w /\ shutdownCh[w] = [msgs |-> 0, sender |-> TRUE]

\* C6: with a budget of 3, the third consecutive crash that the watchdog
\* handles leaves the state Crashed(3), so that the watchdog stops.
C6_ThirdCrashExhaustsBudget ==
    \A w \in DOMAIN wd :
        (wd[w].crashes = MAX_RESTARTS /\ wd[w].pc = "should_restart"
            /\ Unsignalled(w) /\ UsersIdle /\ state.k = "Crashed")
            => state = Crashed(MAX_RESTARTS)

\* C7: a relaunch attempt that fails leaves the supervisor state as it was
\* before the attempt (Crashed), to be retried on a later poll tick.
C7_FailedRelaunchKeepsState ==
    \A w \in DOMAIN wd :
        (wd[w].failed /\ wd[w].pc \in {"top", "poll"} /\ Unsignalled(w) /\ UsersIdle)
            => state.k = "Crashed"

\* C8: once kill has returned Ok, and until spawn is called again, no
\* background thread changes the supervisor state or the child and stdin handles.
C8_KillIsFinal ==
    [][(KillReturned /\ user' = user)
          => (state' = state /\ child' = child /\ stdin_writer' = stdin_writer)]_vars

\* C9: when kill has returned, no send_request caller is left waiting on a
\* channel that holds no message.
C9_KillCancelsWaiters ==
    KillReturned =>
        \A c \in Callers : caller[c].pc = "recv" => sent[caller[c].id] # <<>>

\* C10: every step that a kill call takes on a bridge that is Stopped with no
\* child, stdin handle or shutdown sender leaves it so and kills no process;
\* every kill call returns Ok, and when it returns the state is Stopped and
\* no child handle is held.
C10_KillIdempotent ==
    [][\A u \in DOMAIN user :
          /\ ((user[u].pc \in KillPcs \/ user'[u].pc \in KillPcs)
                 /\ user'[u] # user[u] /\ StoppedBridge)
                => (StoppedBridge' /\ proc' = proc)
          /\ (user[u].pc \in KillPcs /\ user'[u].pc = "idle")
                => /\ last_call' = Returned("kill", OkUnit)
                   /\ state' = Stopped /\ child' = NoProc]_vars

\* kill returned Ok on a bridge that was never spawned
C10_Witness == KillReturned /\ StoppedBridge /\ Len(wd) = 0 /\ Len(proc) = 0

\* every variable but the record of the last return is left as it was
OnlyResultChanges ==
    UNCHANGED <<state, child, childLock, stdin_writer, pending, sent,
                watchdog_shutdown, shutdownCh, last_pong, now, nextId, proc, inbox,
                readers, wd, sw, hc, caller, user, registered, written, poisoned, lk,
                outbox, log_level>>

\* u is inside the first spawn or kill call made on the bridge, and no other call overlaps it
FirstCallAlone(u) ==
    /\ last_call = NoCall
    /\ \A v \in DOMAIN user \ {u} : user[v].pc = "idle"

\* C11: a spawn call made while the state is Running returns the error
\* "Sidecar already running" and changes nothing else; at the step in which a
\* spawn call returns Ok a child handle and a stdin handle are installed, the
\* state is Running, readers were started for the launched process, a timeout
\* checker runs, and a watchdog and a health checker are started.
C11_SpawnContract ==
    [][/\ (is_running /\ user' = user /\ last_call' # last_call
             /\ last_call'.op = "spawn")
           => /\ last_call' = Returned("spawn", Err("Sidecar already running"))
              /\ OnlyResultChanges
       /\ \A u \in DOMAIN user :
            (user[u].pc = "sp_store" /\ user'[u].pc = "idle")
               => /\ last_call' = Returned("spawn", OkUnit)
                  /\ child' # NoProc /\ stdin_writer' # NoProc
                  /\ state' = Running
                  /\ user[u].p \in readers'
                  /\ Len(sw') > 0
                  /\ wd' = Append(wd, NewWatchdog)
                  /\ hc' = Append(hc, NewHealth)]_vars

\* C12: whenever a watchdog has brought the state back to Running after a
\* crash, a timeout checker loop and a health checker loop are running.
C12_RestartRewiresLoops ==
    \A w \in DOMAIN wd :
        (wd[w].crashes >= 1 /\ wd[w].pc \in {"top", "poll"} /\ state = Running
            /\ Unsignalled(w) /\ UsersIdle)
            => (Len(sw) > 0 /\ Len(hc) > 0)

\* the table t without the entries of the ids in gone
SameExcept(t1, t0, gone) ==
    /\ DOMAIN t1 = (DOMAIN t0) \ gone
    /\ \A i \in DOMAIN t1 : t1[i] = t0[i]

\* the channels of the ids outside touched got nothing, and no channel was added or lost
OthersUntouched(touched) ==
    /\ DOMAIN sent' = DOMAIN sent
    /\ \A i \in (DOMAIN sent) \ touched : sent'[i] = sent[i]

\* the step is a call of op, an operation that is one locked section
TrackerCall(op) == last_call'.op = op /\ now' = now /\ caller' = caller /\ sw' = sw

\* C13: resolve(id, r) on an id in the table returns true, removes that one
\* entry and makes r the only message on that id's channel, leaving every
\* other entry and channel as it was; on an id not in the table it returns
\* false and changes neither the table nor any channel.
C13_ResolveDeliversResponse ==
    [][TrackerCall("resolve") =>
          LET id == last_call'.id
              r == last_call'.arg
          IN  IF id \in DOMAIN pending
              THEN /\ last_call'.ret = TRUE
                   /\ SameExcept(pending', pending, {id})
                   /\ sent'[id] = <<r>>
                   /\ OthersUntouched({id})
              ELSE /\ last_call'.ret = FALSE
                   /\ pending' = pending
                   /\ sent' = sent]_vars

\* ids 1 and 2 are registered, the response carrying id 2 was resolved under
\* id 1 and delivered on the channel of 1, and 2 is still pending with nothing sent
C13_Witness ==
    /\ last_call = Call("resolve", 1, OkMsg(2), TRUE)
    /\ sent[1] = <<OkMsg(2)>> /\ 1 \notin DOMAIN pending
    /\ 2 \in DOMAIN pending /\ sent[2] = <<>>

\* C14: check_timeouts removes exactly the entries whose deadline is at or
\* before the instant the call read from the clock, which it does before it
\* takes the table lock, and makes a timeout error naming the id the only
\* message on each of their channels; every other entry, also one whose
\* deadline passes while the call waits for the lock, stays with its deadline
\* and nothing is sent on its channel.
C14_CheckTimeoutsSweepsExpired ==
    [][\A s \in DOMAIN sw :
          (sw[s].pc = "sweep" /\ sw' # sw) =>
              LET expired == {i \in DOMAIN pending : pending[i] <= sw[s].t}
              IN  /\ SameExcept(pending', pending, expired)
                  /\ \A i \in expired :
                        sent'[i] = <<[tag |-> "Err", id |-> i, body |-> "timed out"]>>
                  /\ OthersUntouched(expired)]_vars

\* a sweep timed out an entry whose deadline was the instant the call had
\* read, and left two entries in the table: one whose deadline passed between
\* the reading and the sweep, and one whose deadline is still to come
C14_Witness ==
    /\ last_call.op = "check_timeouts"
    /\ \E i, j, k \in registered :
          /\ sent[i] = <<TimeoutMsg(i)>> /\ i \notin DOMAIN pending
          /\ j \in DOMAIN pending /\ sent[j] = <<>>
          /\ pending[j] > last_call.id /\ pending[j] <= now
          /\ k \in DOMAIN pending /\ pending[k] > now /\ sent[k] = <<>>
    /\ now = last_call.id + 1

\* C15: fail_all(reason) empties the table and makes the error reason the
\* only message on the channel of every entry that was in it, expired or
\* not; nothing is sent on any other channel.
C15_FailAllFailsEveryEntry ==
    [][TrackerCall("fail_all") =>
          /\ pending' = EmptyTbl
          /\ \A i \in DOMAIN pending : sent'[i] = <<last_call'.arg>>
          /\ OthersUntouched(DOMAIN pending)]_vars

\* fail_all found two entries, one of which had reached its deadline with no
\* sweep run since, and failed both with the kill reason
C15_Witness ==
    /\ last_call = Call("fail_all", 1, ReasonMsg(KillReason), TRUE)
    /\ registered = {1, 2} /\ pending = EmptyTbl
    /\ sent[1] = <<ReasonMsg(KillReason)>> /\ sent[2] = <<ReasonMsg(KillReason)>>

\* ---------------------------------------------------------------- is_healthy / record_pong called directly (bridge.rs 590-634)
MaxNow == 4
MaxWindow == 3

Windows == 0..MaxWindow

\* a bridge in any supervisor state, with no contact or a contact at some past instant
InitHealth ==
    /\ state \in {Stopped, Starting, Running, Crashed(1)}
    /\ now \in 0..MaxNow
    /\ last_pong \in {Never} \cup 0..now
    /\ child = NoProc /\ childLock = NoUser /\ stdin_writer = NoProc
    /\ pending = EmptyTbl /\ sent = EmptyTbl
    /\ watchdog_shutdown = NoWatchdog /\ shutdownCh = <<>>
    /\ nextId = 1 /\ proc = <<>> /\ inbox = <<>> /\ readers = {}
    /\ wd = <<>> /\ sw = <<>> /\ hc = <<>>
    /\ caller = [c \in Callers |-> IdleCaller]
    /\ user = [u \in Users |-> IdleUser]
    /\ registered = {} /\ written = {}
    /\ last_call = NoCall
    /\ poisoned = {}
    /\ lk = IdleLocks
    /\ outbox = [p \in DOMAIN proc |-> {}]
    /\ log_level = DefaultLevel

\* is_healthy, first statement: is_running() reads the state under the state
\* mutex and releases it; false is returned at once unless the state is Running.
\* The window of a call that goes on is kept in the caller's id field.
hl_is_healthy(c, window) ==
    /\ caller[c].pc = "idle"
    /\ IF ~is_running
       THEN /\ last_call' = Call("is_healthy", window, NoMsg, FALSE)
            /\ UNCHANGED caller
       ELSE /\ caller' = [caller EXCEPT ![c].pc = "last_pong", ![c].id = window]
            /\ UNCHANGED last_call
    /\ UNCHANGED <<state, child, childLock, stdin_writer, pending, sent,
                   watchdog_shutdown, shutdownCh, last_pong, now, nextId, proc, inbox,
                   readers, wd, sw, hc, user, registered, written, poisoned, lk, outbox, log_level>>

\* is_healthy, second statement: the last_pong mutex is taken and the match
\* on its value gives the result
hl_is_healthy_last_pong(c) ==
    /\ caller[c].pc = "last_pong"
    /\ last_call' = Call("is_healthy", caller[c].id, NoMsg, match_last_pong(caller[c].id))
    /\ caller' = [caller EXCEPT ![c] = IdleCaller]
    /\ UNCHANGED <<state, child, childLock, stdin_writer, pending, sent,
                   watchdog_shutdown, shutdownCh, last_pong, now, nextId, proc, inbox,
                   readers, wd, sw, hc, user, registered, written, poisoned, lk, outbox, log_level>>

\* SidecarBridge::record_pong, the value assigned: Some(Instant::now()) is
\* evaluated before the last_pong mutex is taken. The instant read is kept in
\* the p field of the calling thread.
hl_record_pong_now(u) ==
    /\ user[u].pc = "idle"
    /\ user' = [user EXCEPT ![u] = [pc |-> "record_pong", p |-> now]]
    /\ UNCHANGED <<state, child, childLock, stdin_writer, pending, sent, watchdog_shutdown,
                   shutdownCh, last_pong, now, nextId, proc, inbox, readers, wd, sw, hc,
                   caller, registered, written, last_call, poisoned, lk, outbox, log_level>>

\* SidecarBridge::record_pong, the locked section: the instant read is stored
hl_record_pong(u) ==
    /\ user[u].pc = "record_pong"
    /\ last_pong' = user[u].p
    /\ user' = [user EXCEPT ![u] = IdleUser]
    /\ last_call' = Call("record_pong", user[u].p, NoMsg, TRUE)
    /\ UNCHANGED <<state, child, childLock, stdin_writer, pending, sent, watchdog_shutdown,
                   shutdownCh, now, nextId, proc, inbox, readers, wd, sw, hc, caller,
                   registered, written, poisoned, lk, outbox, log_level>>

\* the supervisor state changes: record_started, record_crash, record_stopped
hl_set_state ==
    /\ state' \in {record_started(state), record_stopped(state)}
                    \cup (IF restart_count(state) < MAX_RESTARTS
                          THEN {record_crash(state)} ELSE {})
    /\ UNCHANGED <<child, childLock, stdin_writer, pending, sent,
                   watchdog_shutdown, shutdownCh, last_pong, now, nextId, proc, inbox,
                   readers, wd, sw, hc, caller, user, registered, written, last_call, poisoned, lk, outbox, log_level>>

\* one second passes
hl_elapse ==
    /\ now < MaxNow
    /\ now' = now + 1
    /\ UNCHANGED <<state, child, childLock, stdin_writer, pending, sent,
                   watchdog_shutdown, shutdownCh, last_pong, nextId, proc, inbox,
                   readers, wd, sw, hc, caller, user, registered, written, last_call, poisoned, lk, outbox, log_level>>

NextHealth ==
    \/ \E c \in Callers, window \in Windows : hl_is_healthy(c, window)
    \/ \E c \in Callers : hl_is_healthy_last_pong(c)
    \/ \E u \in Users : hl_record_pong_now(u)
    \/ \E u \in Users : hl_record_pong(u)
    \/ hl_set_state
    \/ hl_elapse

SpecHealth == InitHealth /\ [][NextHealth]_vars

\* the step is a return of is_healthy
IsHealthyReturns == last_call'.op = "is_healthy" /\ last_call' # last_call

\* C16: is_healthy(window) returns false when it finds the state not Running;
\* when it finds the state Running it goes on to read the last contact, and
\* returns true if none is recorded, and otherwise true exactly when less than
\* window has elapsed since the contact it reads; record_pong records the
\* instant at which it was called, so that on a Running bridge the last
\* contact then lies within every window longer than the time since the call.
C16_IsHealthy ==
    [][/\ \A c \in Callers :
            /\ (caller[c].pc = "idle" /\ IsHealthyReturns) =>
                  (state # Running /\ last_call'.ret = FALSE)
            /\ (caller[c].pc = "idle" /\ caller'[c].pc = "last_pong") => state = Running
            /\ (caller[c].pc = "last_pong" /\ caller'[c].pc = "idle") =>
                  /\ last_call'.op = "is_healthy" /\ last_call'.id = caller[c].id
                  /\ last_pong = Never => last_call'.ret = TRUE
                  /\ last_pong # Never =>
                        (last_call'.ret = TRUE <=> now - last_pong < caller[c].id)
       /\ \A u \in Users :
            (user[u].pc = "idle" /\ user'[u].pc = "record_pong") => user'[u].p = now
       /\ \A u \in Users :
            (user[u].pc = "record_pong" /\ user'[u].pc = "idle") =>
                  /\ last_pong' = user[u].p
                  /\ state = Running =>
                        \A window \in Windows :
                           window > now - user[u].p => is_healthy(window)']_vars

\* is_healthy found the state Running and returned false for a last contact
\* that is exactly window ago
C16_Witness ==
    /\ last_call.op = "is_healthy" /\ last_call.ret = FALSE /\ last_call.id > 0
    /\ state = Running /\ last_pong # Never
    /\ now - last_pong = last_call.id
    /\ \A c \in Callers : caller[c].pc = "idle"

\* the windows is_healthy is asked about after a start
StartWindows == (Windows \ {0}) \cup {REQUEST_TIMEOUT}

\* C17: at the step in which spawn returns Ok, and at the step in which a
\* watchdog restart sets the state to Running, is_healthy is true for every
\* window above 0.
C17_HealthyAfterStart ==
    [][/\ (\E u \in DOMAIN user : user[u].pc = "sp_store" /\ user'[u].pc = "idle")
            => \A window \in StartWindows : is_healthy(window)'
       /\ (\E w \in DOMAIN wd : wd[w].pc = "started" /\ wd'[w].pc = "top")
            => \A window \in StartWindows : is_healthy(window)']_vars

\* ---------------------------------------------------------------- backoff_duration called directly (sidecar.rs 177-218)
MaxCount == 12

\* crash counts beyond the small ones: around the shift clamp, the u64 width, and the largest count
FarCounts == {31, 32, 63, 64, 2147483647}

InitBackoff ==
    /\ state \in {Stopped, Starting, Running}
                   \cup {Crashed(n) : n \in (1..MaxCount) \cup FarCounts}
    /\ now = 0 /\ last_pong = Never
    /\ child = NoProc /\ childLock = NoUser /\ stdin_writer = NoProc
    /\ pending = EmptyTbl /\ sent = EmptyTbl
    /\ watchdog_shutdown = NoWatchdog /\ shutdownCh = <<>>
    /\ nextId = 1 /\ proc = <<>> /\ inbox = <<>> /\ readers = {}
    /\ wd = <<>> /\ sw = <<>> /\ hc = <<>>
    /\ caller = [c \in Callers |-> IdleCaller]
    /\ user = [u \in Users |-> IdleUser]
    /\ registered = {} /\ written = {}
    /\ last_call = Call("", 0, NoMsg, 0)
    /\ poisoned = {}
    /\ lk = IdleLocks
    /\ outbox = [p \in DOMAIN proc |-> {}]
    /\ log_level = DefaultLevel

\* sup.backoff_duration(): the call records the count it saw and the seconds it returned
bo_backoff_duration ==
    /\ last_call' = Call("backoff_duration", restart_count(state), NoMsg,
                         backoff_duration(state))
    /\ UNCHANGED <<state, child, childLock, stdin_writer, pending, sent,
                   watchdog_shutdown, shutdownCh, last_pong, now, nextId, proc, inbox,
                   readers, wd, sw, hc, caller, user, registered, written, poisoned, lk, outbox, log_level>>

bo_record_crash ==
    /\ restart_count(state) < MaxCount
    /\ state' = record_crash(state)
    /\ UNCHANGED <<child, childLock, stdin_writer, pending, sent,
                   watchdog_shutdown, shutdownCh, last_pong, now, nextId, proc, inbox,
                   readers, wd, sw, hc, caller, user, registered, written, last_call, poisoned, lk, outbox, log_level>>

bo_record_started ==
    /\ state' = record_started(state)
    /\ UNCHANGED <<child, childLock, stdin_writer, pending, sent,
                   watchdog_shutdown, shutdownCh, last_pong, now, nextId, proc, inbox,
                   readers, wd, sw, hc, caller, user, registered, written, last_call, poisoned, lk, outbox, log_level>>

NextBackoff ==
    \/ bo_backoff_duration
    \/ bo_record_crash
    \/ bo_record_started

SpecBackoff == InitBackoff /\ [][NextBackoff]_vars

\* C18: backoff_duration returns 1 s for a state that is not Crashed and, for
\* Crashed(n), 2, 4, 8, 16 s for n = 1..4 and 30 s for every n from 5 up,
\* including the counts at and beyond the shift clamp and the largest count.
C18_BackoffSequence ==
    [][(last_call'.op = "backoff_duration" /\ state' = state) =>
          LET secs == last_call'.ret
          IN  /\ last_call'.id = (IF state.k = "Crashed" THEN state.n ELSE 0)
              /\ state.k # "Crashed" => secs = 1
              /\ state = Crashed(1) => secs = 2
              /\ state = Crashed(2) => secs = 4
              /\ state = Crashed(3) => secs = 8
              /\ state = Crashed(4) => secs = 16
              /\ (state.k = "Crashed" /\ state.n >= 5) => secs = 30]_vars

\* the backoff for the largest count was computed and is 30 s
C18_Witness ==
    /\ state = Crashed(2147483647)
    /\ last_call = Call("backoff_duration", 2147483647, NoMsg, 30)

\* ---------------------------------------------------------------- stdout reader: one inbound line (bridge.rs 80-121)
MaxLineIds == 2

\* the byte counts at which the reader cuts a line for its log events
TRACE_RAW_MAX == 200

WARN_RAW_MAX == 100

\* The shape of a line: blank after trim, text that is not JSON, or JSON with
\* an "id" (absent, a u64, or of another type), a "method" (absent, a routed
\* name, or another string), whether the rest decodes as a JsonRpcResponse,
\* and which of the members "result" and "error" the decoded response has.
\* "inside" holds the cut points n for which the trimmed text is longer than n
\* bytes and its byte n lies inside a multi-byte character.
BlankLine ==
    [kind |-> "blank", id |-> "none", idval |-> NoId, method |-> "none",
     decodes |-> FALSE, body |-> "none", inside |-> {}]

TextLines ==
    {[kind |-> "text", id |-> "none", idval |-> NoId, method |-> "none",
      decodes |-> FALSE, body |-> "none", inside |-> cut] : cut \in SUBSET {WARN_RAW_MAX, TRACE_RAW_MAX}}

JsonLines ==
    {[kind |-> "json", id |-> i, idval |-> IF i = "number" THEN v ELSE NoId,
      method |-> m, decodes |-> d, body |-> IF d THEN b ELSE "none", inside |-> cut] :
        i \in {"none", "number", "string"}, v \in 1..MaxLineIds,
        m \in {"none", "known", "unknown"}, d \in BOOLEAN, b \in Bodies, cut \in SUBSET {WARN_RAW_MAX, TRACE_RAW_MAX}}

Lines == {BlankLine} \cup TextLines \cup JsonLines

\* &text[..text.len().min(n)]: the slice panics when its end is not a char boundary
Slice(line, n) == IF n \in line.inside THEN "panic" ELSE "ok"

\* what the reader does with a line: "response" (pending.resolve is called),
\* "event" (route_notification emits), "unknown_method" (route_notification
\* returns without an event), "discard", or "panic" (a log event that is
\* enabled slices the text inside a character and the thread unwinds)
Classify(line) ==
    IF line.kind = "blank" THEN "discard"
    ELSE IF Enabled("trace") /\ Slice(line, TRACE_RAW_MAX) = "panic" THEN "panic"
    ELSE IF line.kind = "text"
         THEN IF Enabled("warn") /\ Slice(line, WARN_RAW_MAX) = "panic"
              THEN "panic" ELSE "discard"
    ELSE IF line.id = "number"
         THEN IF line.decodes THEN "response" ELSE "discard"
    ELSE IF line.method = "known" THEN "event"
    ELSE IF line.method = "unknown" THEN "unknown_method"
    ELSE "discard"

\* a bridge whose worker 1 runs with its stdout reader started
InitDispatch ==
    /\ state = Running
    /\ proc = <<"alive">> /\ inbox = <<{}>> /\ readers = {1}
    /\ child = 1 /\ childLock = NoUser /\ stdin_writer = 1
    /\ pending = EmptyTbl /\ sent = EmptyTbl
    /\ watchdog_shutdown = NoWatchdog /\ shutdownCh = <<>>
    /\ now = 0 /\ last_pong = Never /\ nextId = 1
    /\ wd = <<>> /\ sw = <<>> /\ hc = <<>>
    /\ caller = [c \in Callers |-> IdleCaller]
    /\ user = [u \in Users |-> IdleUser]
    /\ registered = {} /\ written = {}
    /\ last_call = Call("", NoId, BlankLine, "")
    /\ poisoned = {}
    /\ lk = IdleLocks
    /\ outbox = [p \in DOMAIN proc |-> {}]
    /\ log_level \in LogLevels

\* a request is registered; no time passes in these behaviours, so the
\* clock reading of register and its locked section are one step
dp_register ==
    /\ nextId <= MaxLineIds
    /\ pending' = RegisterTbl(pending, nextId, Deadline(now, REQUEST_TIMEOUT))
    /\ sent' = RegisterSent(sent, nextId)
    /\ registered' = registered \cup {nextId}
    /\ nextId' = nextId + 1
    /\ last_call' = Call("register", nextId, BlankLine, "")
    /\ UNCHANGED <<state, child, childLock, stdin_writer, watchdog_shutdown,
                   shutdownCh, last_pong, now, proc, inbox, readers, wd, sw, hc,
                   caller, user, written, poisoned, lk, outbox, log_level>>

\* one iteration of the reader loop on a line read; a panic ends the thread
dp_line(line) ==
    /\ 1 \in readers
    /\ IF Classify(line) = "response"
       THEN /\ pending' = ResolveTbl(pending, line.idval)
            /\ sent' = ResolveSent(pending, sent, line.idval, Response(line.idval, line.body))
       ELSE UNCHANGED <<pending, sent>>
    /\ readers' = IF Classify(line) = "panic" THEN readers \ {1} ELSE readers
    /\ last_call' = Call("line", line.idval, line, Classify(line))
    /\ UNCHANGED <<state, child, childLock, stdin_writer, watchdog_shutdown,
                   shutdownCh, last_pong, now, nextId, proc, inbox, wd,
                   sw, hc, caller, user, registered, written, poisoned, lk, outbox, log_level>>

\* Err(e) from reader.lines(): the loop breaks
dp_read_error ==
    /\ 1 \in readers
    /\ readers' = readers \ {1}
    /\ last_call' = Call("read_error", NoId, BlankLine, "")
    /\ UNCHANGED <<state, child, childLock, stdin_writer, pending, sent,
                   watchdog_shutdown, shutdownCh, last_pong, now, nextId, proc, inbox,
                   wd, sw, hc, caller, user, registered, written, poisoned, lk, outbox, log_level>>

NextDispatch ==
    \/ dp_register
    \/ \E line \in Lines : dp_line(line)
    \/ dp_read_error

SpecDispatch == InitDispatch /\ [][NextDispatch]_vars

\* C19: the reader treats a line as a response only when it has a numeric id
\* and no method, and as a notification only when it has a method and no id;
\* every other line is discarded: no pending entry is resolved, nothing is
\* routed, and the read loop goes on.
C19_DispatchByShape ==
    [][last_call'.op = "line" =>
          LET line == last_call'.arg
              cls == last_call'.ret
              IsResponse == line.kind = "json" /\ line.id = "number" /\ line.method = "none"
              IsNotification == line.kind = "json" /\ line.method # "none" /\ line.id = "none"
          IN  /\ cls = "response" => IsResponse
              /\ cls \in {"event", "unknown_method"} => IsNotification
              /\ (~IsResponse /\ ~IsNotification) =>
                    (cls = "discard" /\ pending' = pending /\ sent' = sent)
              /\ readers' = readers]_vars

\* ---------------------------------------------------------------- poisoned locks (sidecar.rs 161-251, bridge.rs 550-588)
Locks == {"state", "stdin", "child"}

Panic == [tag |-> "Panic", id |-> NoId, body |-> ""]

\* variant: every acquisition is lock().unwrap()
AcquireUnwrap(lock, policy) == IF lock \in poisoned THEN "panic" ELSE "ok"

\* mutex.lock() followed by the handling the source gives the poison error:
\* unwrap_or_else(|e| e.into_inner()) recovers the guard, map_err(..)? returns an error
Acquire(lock, policy) ==
    IF lock \notin poisoned THEN "ok"
    ELSE IF policy = "recover" THEN "ok"
    ELSE IF policy = "map_err" THEN "err"
    ELSE "panic"

\* a bridge without a worker, in any supervisor state, with any of its mutexes poisoned
InitPoison ==
    /\ state \in {Stopped, Starting, Running, Crashed(1)}
    /\ poisoned \in SUBSET Locks
    /\ lk = IdleLocks
    /\ outbox = <<>>
    /\ child = NoProc /\ childLock = NoUser /\ stdin_writer = NoProc
    /\ pending = EmptyTbl /\ sent = EmptyTbl
    /\ watchdog_shutdown = NoWatchdog /\ shutdownCh = <<>>
    /\ now = 0 /\ last_pong = Never /\ nextId = 1
    /\ proc = <<>> /\ inbox = <<>> /\ readers = {}
    /\ wd = <<>> /\ sw = <<>> /\ hc = <<>>
    /\ caller = [c \in Callers |-> IdleCaller]
    /\ user = [u \in Users |-> IdleUser]
    /\ registered = {} /\ written = {}
    /\ last_call = NoCall
    /\ log_level = DefaultLevel

\* requests that may be sent on this bridge
MaxPoisonIds == 2

\* send_request, first statement: is_running() under the state mutex
pz_send_request_check(c) ==
    /\ caller[c].pc = "idle"
    /\ IF Acquire("state", "recover") = "panic"
       THEN /\ caller' = [caller EXCEPT ![c].res = Panic]
            /\ UNCHANGED nextId
       ELSE IF ~is_running
       THEN /\ caller' = [caller EXCEPT ![c].res = Err("Sidecar not running")]
            /\ UNCHANGED nextId
       ELSE /\ nextId <= MaxPoisonIds
            /\ caller' = [caller EXCEPT ![c].pc = "register", ![c].id = nextId,
                                        ![c].res = NoMsg]
            /\ nextId' = nextId + 1
    /\ UNCHANGED <<state, child, childLock, stdin_writer, pending, sent, watchdog_shutdown,
                   shutdownCh, last_pong, now, proc, inbox, readers, wd, sw, hc, user,
                   registered, written, last_call, poisoned, lk, outbox, log_level>>

\* send_request, the stdin block on a bridge that holds no stdin handle: the
\* lock error when the mutex is poisoned, else "Stdin not available"
pz_send_request_write(c) ==
    /\ caller[c].pc = "write"
    /\ stdin_writer = NoProc
    /\ caller' = [caller EXCEPT ![c].pc = "idle", ![c].id = NoId, ![c].res =
          IF Acquire("stdin", "map_err") = "panic" THEN Panic
          ELSE IF Acquire("stdin", "map_err") = "err"
               THEN Err("Failed to acquire stdin lock")
          ELSE Err("Stdin not available")]
    /\ UNCHANGED <<state, child, childLock, stdin_writer, pending, sent, watchdog_shutdown,
                   shutdownCh, last_pong, now, nextId, proc, inbox, readers, wd, sw, hc,
                   user, registered, written, last_call, poisoned, lk, outbox, log_level>>

\* kill, the child block on a bridge that holds no child: the lock error when
\* the mutex is poisoned, else the guard is held and set to None
pz_kill_child(u) ==
    /\ user[u].pc = "k_child"
    /\ child = NoProc
    /\ childLock = NoUser
    /\ IF Acquire("child", "map_err") = "panic"
       THEN /\ user' = [user EXCEPT ![u].pc = "idle"]
            /\ last_call' = Returned("kill", Panic)
            /\ UNCHANGED childLock
       ELSE IF Acquire("child", "map_err") = "err"
       THEN /\ user' = [user EXCEPT ![u].pc = "idle"]
            /\ last_call' = Returned("kill", Err("Failed to acquire child lock"))
            /\ UNCHANGED childLock
       ELSE /\ user' = [user EXCEPT ![u].pc = "k_stdin"]
            /\ childLock' = u
            /\ UNCHANGED last_call
    /\ UNCHANGED <<state, child, stdin_writer, pending, sent, watchdog_shutdown,
                   shutdownCh, last_pong, now, nextId, proc, inbox, readers, wd, sw, hc,
                   caller, registered, written, poisoned, lk, outbox, log_level>>

\* kill, *self.stdin_writer.lock() = None: the lock error when the mutex is
\* poisoned, with the child guard released by the return
pz_kill_clear_stdin(u) ==
    /\ user[u].pc = "k_stdin"
    /\ IF Acquire("stdin", "map_err") = "panic"
       THEN /\ user' = [user EXCEPT ![u].pc = "idle"]
            /\ last_call' = Returned("kill", Panic)
            /\ childLock' = NoUser
            /\ UNCHANGED stdin_writer
       ELSE IF Acquire("stdin", "map_err") = "err"
       THEN /\ user' = [user EXCEPT ![u].pc = "idle"]
            /\ last_call' = Returned("kill", Err("Failed to acquire stdin lock"))
            /\ childLock' = NoUser
            /\ UNCHANGED stdin_writer
       ELSE /\ user' = [user EXCEPT ![u].pc = "k_stopped"]
            /\ stdin_writer' = NoProc
            /\ UNCHANGED <<last_call, childLock>>
    /\ UNCHANGED <<state, child, pending, sent, watchdog_shutdown, shutdownCh, last_pong,
                   now, nextId, proc, inbox, readers, wd, sw, hc, caller, registered,
                   written, poisoned, lk, outbox, log_level>>

\* kill, last statement: record_stopped() under the state mutex, then Ok(())
pz_kill_record_stopped(u) ==
    /\ user[u].pc = "k_stopped"
    /\ childLock' = NoUser
    /\ user' = [user EXCEPT ![u].pc = "idle"]
    /\ IF Acquire("state", "recover") = "panic"
       THEN /\ last_call' = Returned("kill", Panic)
            /\ UNCHANGED state
       ELSE /\ last_call' = Returned("kill", OkUnit)
            /\ state' = record_stopped(state)
    /\ UNCHANGED <<child, stdin_writer, pending, sent, watchdog_shutdown, shutdownCh,
                   last_pong, now, nextId, proc, inbox, readers, wd, sw, hc, caller,
                   registered, written, poisoned, lk, outbox, log_level>>

AccessorOps == {"set_state", "record_started", "record_crash", "record_stopped"}

\* the new state that the accessor op writes
Written(op, st) ==
    IF op = "set_state" THEN Starting
    ELSE IF op = "record_started" THEN record_started(st)
    ELSE IF op = "record_crash" THEN record_crash(st)
    ELSE record_stopped(st)

\* set_state(Starting), record_started, record_crash or record_stopped called directly
pz_accessor(op) ==
    /\ op = "record_crash" => restart_count(state) < MAX_RESTARTS
    /\ IF Acquire("state", "recover") = "panic"
       THEN /\ last_call' = Returned(op, Panic)
            /\ UNCHANGED state
       ELSE /\ last_call' = Returned(op, OkUnit)
            /\ state' = Written(op, state)
    /\ UNCHANGED <<child, childLock, stdin_writer, pending, sent, watchdog_shutdown,
                   shutdownCh, last_pong, now, nextId, proc, inbox, readers, wd, sw, hc,
                   caller, user, registered, written, poisoned, lk, outbox, log_level>>

\* send_request and kill run statement by statement beside each other and
\* beside the accessors; the statements that take no poisoned mutex are those
\* of the bridge
NextPoison ==
    \/ \E c \in Callers :
          \/ pz_send_request_check(c)
          \/ send_request_deadline(c)
          \/ send_request_register(c)
          \/ pz_send_request_write(c)
    \/ \E u \in Users :
          \/ kill_signal(u)
          \/ kill_fail_all(u)
          \/ pz_kill_child(u)
          \/ pz_kill_clear_stdin(u)
          \/ pz_kill_record_stopped(u)
    \/ \E op \in AccessorOps : pz_accessor(op)

SpecPoison == InitPoison /\ [][NextPoison]_vars

\* C20: no call ends in a panic; with the state mutex poisoned the accessors
\* still write the state and is_running still reads it; send_request that
\* found the bridge Running and reaches the stdin mutex poisoned, and kill
\* that reaches the child mutex poisoned, return an error that names the lock.
C20_PoisonedLocksRecovered ==
    /\ [](/\ \A c \in Callers : caller[c].res # Panic
          /\ last_call.arg # Panic)
    /\ [][/\ (last_call' # last_call /\ last_call'.op \in AccessorOps)
               => (last_call'.arg = OkUnit /\ state' = Written(last_call'.op, state))
          /\ \A u \in DOMAIN user :
               (user[u].pc = "k_child" /\ user'[u].pc # "k_child" /\ "child" \in poisoned)
                  => /\ last_call' = Returned("kill", Err("Failed to acquire child lock"))
                     /\ user'[u].pc = "idle"
                     /\ state' = state /\ stdin_writer' = stdin_writer
          /\ \A c \in Callers :
               /\ (caller[c].pc = "idle" /\ caller'[c] # caller[c]) =>
                     IF state = Running
                     THEN caller'[c].pc = "register"
                     ELSE caller'[c].res = Err("Sidecar not running")
               /\ (caller[c].pc = "write" /\ caller'[c].pc = "idle" /\ "stdin" \in poisoned)
                     => caller'[c].res = Err("Failed to acquire stdin lock")]_vars

\* with all three mutexes poisoned, record_started made the state Running,
\* send_request then returned the stdin lock error and kill the child lock
\* error, after it had failed the entry that send_request left in the table
C20_Witness ==
    /\ poisoned = Locks
    /\ state = Running
    /\ \E c \in Callers : caller[c].res = Err("Failed to acquire stdin lock")
    /\ last_call = Returned("kill", Err("Failed to acquire child lock"))
    /\ sent[1] = <<ReasonMsg(KillReason)>>

\* ---------------------------------------------------------------- the supervisor called directly, beside a watchdog (sidecar.rs 105-159, 220-236)
MaxCrashes == 5

\* the budgets SidecarSupervisor::new is given
Budgets == {0, 2, 3, 5}

\* the bridge when spawn has returned Ok and worker 1 runs
InitSupervisor ==
    /\ state = Running
    /\ proc = <<"alive">> /\ inbox = <<{}>> /\ readers = {1}
    /\ child = 1 /\ childLock = NoUser /\ stdin_writer = 1
    /\ pending = EmptyTbl /\ sent = EmptyTbl
    /\ watchdog_shutdown = 1 /\ shutdownCh = <<[msgs |-> 0, sender |-> TRUE]>>
    /\ now = 0 /\ last_pong = Never /\ nextId = 1
    /\ wd = <<NewWatchdog>> /\ sw = <<NewSweeper>> /\ hc = <<NewHealth>>
    /\ caller = [c \in Callers |-> IdleCaller]
    /\ user = [u \in Users |-> IdleUser]
    /\ registered = {} /\ written = {}
    /\ last_call = NoCall
    /\ poisoned = {}
    /\ lk = IdleLocks
    /\ outbox = [p \in DOMAIN proc |-> {}]
    /\ log_level = DefaultLevel

\* should_restart() of a supervisor with the budget max: the call records the budget and the answer
sv_should_restart(max) ==
    /\ last_call' = Call("should_restart", max, NoMsg, should_restart(state, max))
    /\ UNCHANGED <<state, child, childLock, stdin_writer, pending, sent,
                   watchdog_shutdown, shutdownCh, last_pong, now, nextId, proc, inbox,
                   readers, wd, sw, hc, caller, user, registered, written, poisoned, lk, outbox, log_level>>

\* restart_count(): the call records the count it returned
sv_restart_count ==
    /\ last_call' = Call("restart_count", restart_count(state), NoMsg, TRUE)
    /\ UNCHANGED <<state, child, childLock, stdin_writer, pending, sent,
                   watchdog_shutdown, shutdownCh, last_pong, now, nextId, proc, inbox,
                   readers, wd, sw, hc, caller, user, registered, written, poisoned, lk, outbox, log_level>>

\* record_crash(): the call records the count before it
sv_record_crash ==
    /\ restart_count(state) < MaxCrashes
    /\ state' = record_crash(state)
    /\ last_call' = Call("record_crash", restart_count(state), NoMsg, TRUE)
    /\ UNCHANGED <<child, childLock, stdin_writer, pending, sent,
                   watchdog_shutdown, shutdownCh, last_pong, now, nextId, proc, inbox,
                   readers, wd, sw, hc, caller, user, registered, written, poisoned, lk, outbox, log_level>>

sv_record_started ==
    /\ state' = record_started(state)
    /\ last_call' = Call("record_started", restart_count(state), NoMsg, TRUE)
    /\ UNCHANGED <<child, childLock, stdin_writer, pending, sent,
                   watchdog_shutdown, shutdownCh, last_pong, now, nextId, proc, inbox,
                   readers, wd, sw, hc, caller, user, registered, written, poisoned, lk, outbox, log_level>>

sv_record_stopped ==
    /\ state' = record_stopped(state)
    /\ last_call' = Call("record_stopped", restart_count(state), NoMsg, TRUE)
    /\ UNCHANGED <<child, childLock, stdin_writer, pending, sent,
                   watchdog_shutdown, shutdownCh, last_pong, now, nextId, proc, inbox,
                   readers, wd, sw, hc, caller, user, registered, written, poisoned, lk, outbox, log_level>>

\* set_state(SidecarState::Starting)
sv_set_starting ==
    /\ state' = Starting
    /\ last_call' = Call("set_state", restart_count(state), NoMsg, TRUE)
    /\ UNCHANGED <<child, childLock, stdin_writer, pending, sent,
                   watchdog_shutdown, shutdownCh, last_pong, now, nextId, proc, inbox,
                   readers, wd, sw, hc, caller, user, registered, written, poisoned, lk, outbox, log_level>>

NextSupervisor ==
    \/ \E max \in Budgets : sv_should_restart(max)
    \/ sv_restart_count
    \/ sv_record_crash
    \/ sv_record_started
    \/ sv_record_stopped
    \/ sv_set_starting
    \/ \E w \in 1..MaxSpawns : WatchdogStep(w)
    \/ \E p \in 1..MaxLaunches : worker_exit(p)

SpecSupervisor == InitSupervisor /\ [][NextSupervisor]_vars

\* the steps by which a watchdog comes to launch a process
RelaunchPath == <<"should_restart", "backoff", "set_starting", "respawn", "in_stdin">>

\* C21: should_restart answers true exactly for Crashed(n) with n below the
\* budget, and false for Stopped, Starting, Running and Crashed(n) with n at
\* or above the budget; a watchdog that has recorded a crash goes on to the
\* backoff and the relaunch only when the state is Crashed(n) with n below 3,
\* exits otherwise, and launches a process in no other way.
C21_ShouldRestart ==
    [][/\ (last_call'.op = "should_restart" /\ last_call' # last_call) =>
            LET max == last_call'.id
                ret == last_call'.ret
            IN  /\ state.k \in {"Stopped", "Starting", "Running"} => ret = FALSE
                /\ (state.k = "Crashed" /\ state.n < max) => ret = TRUE
                /\ (state.k = "Crashed" /\ state.n >= max) => ret = FALSE
       /\ \A w \in DOMAIN wd :
            /\ (wd[w].pc = "should_restart" /\ wd'[w] # wd[w]) =>
                  IF state.k = "Crashed" /\ state.n < 3
                  THEN wd'[w].pc = "backoff"
                  ELSE wd'[w] = ExitedWatchdog
            /\ \A i \in 2..Len(RelaunchPath) :
                  (wd'[w].pc = RelaunchPath[i] /\ wd[w].pc # RelaunchPath[i])
                     => wd[w].pc = RelaunchPath[i - 1]
            /\ (Len(proc') > Len(proc) /\ wd'[w] # wd[w]) => wd[w].pc = "respawn"]_vars

\* should_restart answered false for the budget 3 at Crashed(3), and the
\* watchdog of the only worker launched has left its loop without a relaunch
C21_Witness ==
    /\ last_call = Call("should_restart", 3, NoMsg, FALSE)
    /\ state = Crashed(3)
    /\ wd[1] = ExitedWatchdog
    /\ Len(proc) = 1 /\ proc[1] = "reaped"

\* C22: record_crash turns Crashed(n) into Crashed(n+1) and Stopped,
\* Starting and Running into Crashed(1); record_started, record_stopped and
\* set_state(Starting) leave a state in which restart_count reads 0; no step
\* of any thread changes the count in another way, and restart_count returns
\* n in Crashed(n) and 0 in every other state.
C22_CrashCounter ==
    [][/\ (last_call'.op = "record_crash" /\ last_call' # last_call) =>
            /\ state.k = "Crashed" => state' = Crashed(state.n + 1)
            /\ state.k # "Crashed" => state' = Crashed(1)
       /\ (last_call'.op \in {"record_started", "record_stopped", "set_state"}
              /\ last_call' # last_call) =>
            (state'.k # "Crashed" /\ restart_count(state') = 0)
       /\ (last_call'.op = "restart_count" /\ last_call' # last_call) =>
            last_call'.id = (IF state.k = "Crashed" THEN state.n ELSE 0)
       /\ state' # state =>
            \/ state'.k = "Crashed" /\ state'.n = (IF state.k = "Crashed" THEN state.n ELSE 0) + 1
            \/ state'.k \in {"Stopped", "Starting", "Running"} /\ state'.n = 0
       /\ \A w \in DOMAIN wd :
            (wd[w].pc = "record_crash" /\ wd'[w] # wd[w]) =>
               state' = Crashed((IF state.k = "Crashed" THEN state.n ELSE 0) + 1)]_vars

\* a direct record_crash counted a crash after Crashed(1), the count was
\* discarded afterwards, and the crash of the second worker, which the
\* watchdog recorded, is counted 1 again
C22_Witness ==
    /\ last_call = Call("record_crash", 1, NoMsg, TRUE)
    /\ state = Crashed(1)
    /\ Len(proc) = 2 /\ proc[2] = "reaped"
    /\ wd[1].crashes = 2 /\ wd[1].pc = "should_restart"

\* ---------------------------------------------------------------- spawn called again (bridge.rs 167-392)
\* The bridge with up to MaxRespawns admitted spawn calls, made by threads
\* whose calls can overlap. Of its behaviours only those are followed in which
\* no request is sent and no health checker has woken from its first sleep:
\* there are no send_request callers, the health checker threads are started
\* and take no step, no reply or timeout is delivered, and only the worker
\* processes launched first exit by themselves.
MaxRespawns == 2
\* threads calling spawn and kill at the same time in these behaviours
MaxRespawnUsers == 2
\* worker processes that exit by themselves in these behaviours
MaxRespawnExits == 2

\* SidecarBridge::new, with n threads about to call spawn and kill
NewBridge(n) ==
    /\ state = Stopped
    /\ child = NoProc /\ childLock = NoUser /\ stdin_writer = NoProc
    /\ pending = EmptyTbl /\ sent = EmptyTbl
    /\ watchdog_shutdown = NoWatchdog /\ shutdownCh = <<>>
    /\ last_pong = Never /\ now = 0 /\ nextId = 1
    /\ proc = <<>> /\ inbox = <<>> /\ outbox = <<>> /\ readers = {}
    /\ wd = <<>> /\ sw = <<>> /\ hc = <<>>
    /\ caller = [c \in Callers |-> IdleCaller]
    /\ user = [u \in 1..n |-> IdleUser]
    /\ registered = {} /\ written = {}
    /\ last_call = NoCall
    /\ poisoned = {}
    /\ lk = IdleLocks
    /\ log_level = DefaultLevel

InitRespawn == NewBridge(MaxRespawnUsers)

RespawnUserStep(u) ==
    \/ spawn_check_upto(u, MaxRespawns)
    \/ spawn_set_starting(u)
    \/ spawn_launch(u)
    \/ spawn_install_stdin(u)
    \/ spawn_install_child(u)
    \/ spawn_record_started(u)
    \/ spawn_store_shutdown(u)
    \/ kill_signal(u)
    \/ kill_fail_all(u)
    \/ kill_child(u)
    \/ kill_clear_stdin(u)
    \/ kill_record_stopped(u)

NextRespawn ==
    \/ \E u \in 1..MaxRespawnUsers : RespawnUserStep(u)
    \/ \E w \in 1..MaxRespawns : WatchdogStep(w)
    \/ \E s \in 1..MaxRespawns : SweeperStep(s)
    \/ \E p \in 1..MaxRespawnExits : worker_exit(p)

SpecRespawn == InitRespawn /\ [][NextRespawn]_vars

\* one thread calls spawn and kill, each call after the one before has returned
InitSerial == NewBridge(1)

NextSerial ==
    \/ RespawnUserStep(1)
    \/ \E w \in 1..MaxRespawns : WatchdogStep(w)
    \/ \E s \in 1..MaxRespawns : SweeperStep(s)
    \/ \E p \in 1..MaxLaunches : worker_exit(p)

SpecSerial == InitSerial /\ [][NextSerial]_vars

\* the watchdog loops that have not exited
ActiveWatchdogs == {w \in DOMAIN wd : wd[w] # ExitedWatchdog}

\* C23: at any time at most one watchdog loop, at most one health checker
\* loop and at most one timeout checker loop is active.
C23_OneLoopOfEachKind ==
    /\ Cardinality(ActiveWatchdogs) <= 1
    /\ Len(hc) <= 1
    /\ Len(sw) <= 1

\* a step of a health checker thread
HealthActs == hc' # hc /\ user' = user

\* the health checker h takes a result for its ping from its channel
PingAnswered(h) ==
    /\ hc[h].pc = "pong"
    /\ sent[hc[h].id] # <<>>
    /\ Head(sent[hc[h].id]) = OkMsg(hc[h].id)

\* C24: no step of a health checker changes the supervisor state, the child
\* handle, the stdin handle, any process, the shutdown sender or another
\* thread, whatever the outcome of its ping; it changes the pending table only
\* by registering its own ping, a worker's input only by writing that ping,
\* and the last contact only when its ping is answered with a result. The
\* state becomes Crashed only in the record_crash step of a watchdog that
\* found the worker exited.
C24_HealthOnlyProbes ==
    [][/\ HealthActs =>
            /\ UNCHANGED <<state, child, childLock, stdin_writer, proc, outbox,
                           watchdog_shutdown, shutdownCh, wd, sw, caller>>
            /\ pending' # pending =>
                  \E h \in DOMAIN hc :
                     /\ hc[h].pc = "insert"
                     /\ pending' = Insert(pending, hc[h].id, hc[h].dl)
            /\ sent' # sent => pending' # pending
            /\ inbox' # inbox =>
                  \E h \in DOMAIN hc :
                     /\ hc[h].pc = "writing"
                     /\ inbox' = [inbox EXCEPT ![stdin_writer] = @ \cup {hc[h].id}]
            /\ last_pong' # last_pong => \E h \in DOMAIN hc : PingAnswered(h)
       /\ (state' # state /\ state'.k = "Crashed") =>
            \E w \in DOMAIN wd :
               /\ wd[w].pc = "record_crash" /\ wd'[w].pc = "should_restart"
               /\ wd[w].log = <<"fail_all", "clear_stdin">>]_vars

\* the kill step that runs child.kill() and child.wait() on a process held
KillsAndWaits(u) == user[u].pc = "k_child" /\ user'[u].pc = "k_stdin" /\ child # NoProc

\* C25: no thread holds the child lock, the stdin lock or the pending-table
\* lock while it waits for a process to exit or writes to a pipe: no thread
\* is inside write_all with the stdin lock held, and the step of kill that
\* kills the worker and waits for its exit ends with the child lock free.
C25_NoBlockingUnderLock ==
    /\ [](~StdinLocked)
    /\ [][\A u \in DOMAIN user : KillsAndWaits(u) => childLock' = NoUser]_vars

\* C26: a spawn call whose launch fails, when it is the first call on a new
\* bridge (state Stopped) and no other call overlaps it, returns
\* the error and leaves the state Stopped, no handle installed, no thread
\* started and no process running.
C26_FailedSpawnRestores ==
    [][\A u \in DOMAIN user :
          (user[u].pc = "sp_launch" /\ user'[u].pc = "idle" /\ FirstCallAlone(u))
             => /\ last_call' = Returned("spawn", Err("Failed to spawn agent"))
                /\ state' = Stopped
                /\ child' = NoProc /\ stdin_writer' = NoProc
                /\ sw' = <<>> /\ hc' = <<>> /\ wd' = <<>>
                /\ \A p \in DOMAIN proc' : proc'[p] # "alive"]_vars

\* the worker processes that run
Alive == {p \in DOMAIN proc : proc[p] = "alive"}

\* C27: at most one worker process launched by the bridge is alive, and a
\* step that replaces or drops the child handle leaves the process it
\* referred to not alive.
C27_OneWorkerAlive ==
    /\ [](Cardinality(Alive) <= 1)
    /\ [][(child' # child /\ child # NoProc) => proc'[child] # "alive"]_vars

\* a send_request call, or the ping of a health checker, ends at this step
RequestEnds(c) == caller[c].pc \in {"write", "writing", "recv"} /\ caller'[c].pc = "idle"

PingEnds(h) ==
    /\ h \in DOMAIN hc /\ h \in DOMAIN hc'
    /\ hc[h].pc \in {"write", "writing", "recv"} /\ hc'[h].pc \in {"sleep", "pong"}

\* C28: when a send_request call returns, and when a health checker has
\* finished with a ping, the pending table holds no entry for that id.
C28_NoEntryOutlivesRequest ==
    [][/\ \A c \in Callers : RequestEnds(c) => caller[c].id \notin DOMAIN pending'
       /\ \A h \in 1..MaxSpawns : (PingEnds(h) /\ user' = user)
             => hc[h].id \notin DOMAIN pending']_vars

\* the watchdog w passes one of its two shutdown checks at this step
ChecksShutdown(w) == wd[w].pc \in {"top", "backoff"} /\ wd'[w] # wd[w]

\* the shutdown channel of w has lost its sender and holds no message
Disconnected(w) == ~shutdownCh[w].sender /\ shutdownCh[w].msgs = 0

\* C30: a watchdog leaves its loop at the first shutdown check it makes
\* after kill has returned, and at any shutdown check at which its channel is
\* disconnected because a later spawn replaced its sender.
C30_WatchdogsStopAfterKill ==
    [][\A w \in DOMAIN wd :
          /\ (ChecksShutdown(w) /\ KillReturned) => wd'[w] = ExitedWatchdog
          /\ (ChecksShutdown(w) /\ Disconnected(w)) => wd'[w] = ExitedWatchdog]_vars

\* ---------------------------------------------------------------- the mutexes (bridge.rs, sidecar.rs, bridge_pending.rs)
\* Each thread runs the lock operations of the function or loop body it
\* executes, in source order; a guard that is a temporary of one statement is
\* released at the end of that statement, a named guard at the end of its scope.
\* The programs are the longest paths: an early return or break drops the
\* guards it holds and skips the remaining acquisitions.
AllLocks == {"child", "stdin", "pending", "state", "last_pong", "shutdown"}

Acq(l) == <<"acq", l>>

Rel(l) == <<"rel", l>>

Section(l) == <<Acq(l), Rel(l)>>

\* a call that returns when the operating system lets it, made with the locks held at that point
Io(call) == <<"io", call>>

\* kill: watchdog_shutdown.take(), fail_all, the child guard (held to the end), stdin = None, record_stopped
KillLocks ==
    Section("shutdown") \o Section("pending") \o <<Acq("child"), Io("wait")>>
        \o Section("stdin") \o Section("state") \o <<Rel("child")>>

\* spawn: is_running, set_state, stdin = Some, child = Some, record_started, the shutdown sender
SpawnLocks ==
    Section("state") \o Section("state") \o Section("stdin") \o Section("child")
        \o Section("state") \o Section("shutdown")

\* the stdin block: write_all + flush inside the guard
StdinBlock == <<Acq("stdin"), Io("write_all"), Rel("stdin")>>

\* send_request: is_running, register, the stdin block
SendRequestLocks == Section("state") \o Section("pending") \o StdinBlock

\* send_notification: is_running, the stdin guard
SendNotificationLocks == Section("state") \o StdinBlock

\* is_healthy: is_running, last_pong
IsHealthyLocks == Section("state") \o Section("last_pong")

\* watchdog, an iteration that finds the worker running: try_wait under the child guard
WatchdogPollLocks == Section("child")

\* watchdog, an iteration that finds the worker exited: try_wait, fail_all,
\* stdin = None, record_crash, should_restart, backoff_duration, restart_count
\* (for the log line), set_state, stdin = Some, child = Some, record_started
WatchdogCrashLocks ==
    Section("child") \o Section("pending") \o Section("stdin") \o Section("state")
        \o Section("state") \o Section("state") \o Section("state") \o Section("state")
        \o Section("stdin") \o Section("child") \o Section("state")

\* timeout checker, one iteration: the state, check_timeouts
TimeoutCheckerLocks == Section("state") \o Section("pending")

\* health checker, one iteration: the state, register, the stdin block, the pong, the silence check
HealthCheckerLocks ==
    Section("state") \o Section("pending") \o StdinBlock
        \o Section("last_pong") \o Section("last_pong")

\* stdout reader, one response line: resolve
StdoutReaderLocks == Section("pending")

LockPrograms ==
    [kill |-> KillLocks, spawn |-> SpawnLocks, send_request |-> SendRequestLocks,
     send_notification |-> SendNotificationLocks, is_healthy |-> IsHealthyLocks,
     watchdog_poll |-> WatchdogPollLocks, watchdog_crash |-> WatchdogCrashLocks,
     timeout_checker |-> TimeoutCheckerLocks, health_checker |-> HealthCheckerLocks,
     stdout_reader |-> StdoutReaderLocks]

Running_(t) == lk[t].prog # ""

\* the locks held after the first n operations of a lock program: acquired and not released since
HeldAfter(ops, n) ==
    {l \in AllLocks :
        \E i \in 1..n :
           /\ ops[i] = Acq(l)
           /\ \A j \in (i + 1)..n : ops[j] # Rel(l)}

HeldTable ==
    [p \in DOMAIN LockPrograms |->
        [n \in 0..Len(LockPrograms[p]) |-> HeldAfter(LockPrograms[p], n)]]

\* the locks t holds
HeldBy(t) == IF ~Running_(t) THEN {} ELSE HeldTable[lk[t].prog][lk[t].at]

Holders(l) == {t \in LockThreads : l \in HeldBy(t)}

NextOp(t) == LockPrograms[lk[t].prog][lk[t].at + 1]

\* t executed its next lock operation; after the last one it is idle again
Advance(t) ==
    IF lk[t].at + 1 = Len(LockPrograms[lk[t].prog])
    THEN [lk EXCEPT ![t] = [prog |-> "", at |-> 0]]
    ELSE [lk EXCEPT ![t].at = @ + 1]

\* t enters a function or a loop iteration; the threads are interchangeable,
\* and the one that enters is the first that is idle
lk_begin(t, prog) ==
    /\ ~Running_(t)
    /\ \A v \in 1..(t - 1) : Running_(v)
    /\ lk' = [lk EXCEPT ![t] = [prog |-> prog, at |-> 0]]
    /\ UNCHANGED <<state, child, childLock, stdin_writer, pending, sent,
                   watchdog_shutdown, shutdownCh, last_pong, now, nextId, proc, inbox,
                   readers, wd, sw, hc, caller, user, registered, written, last_call,
                   poisoned, outbox, log_level>>

\* mutex.lock(): returns when no thread holds the mutex
lk_acquire(t) ==
    /\ Running_(t)
    /\ NextOp(t)[1] = "acq"
    /\ Holders(NextOp(t)[2]) = {}
    /\ lk' = Advance(t)
    /\ UNCHANGED <<state, child, childLock, stdin_writer, pending, sent,
                   watchdog_shutdown, shutdownCh, last_pong, now, nextId, proc, inbox,
                   readers, wd, sw, hc, caller, user, registered, written, last_call,
                   poisoned, outbox, log_level>>

\* the guard is dropped
lk_release(t) ==
    /\ Running_(t)
    /\ NextOp(t)[1] = "rel"
    /\ lk' = Advance(t)
    /\ UNCHANGED <<state, child, childLock, stdin_writer, pending, sent,
                   watchdog_shutdown, shutdownCh, last_pong, now, nextId, proc, inbox,
                   readers, wd, sw, hc, caller, user, registered, written, last_call,
                   poisoned, outbox, log_level>>

\* write_all + flush, or child.kill() + child.wait(), returns
lk_io(t) ==
    /\ Running_(t)
    /\ NextOp(t)[1] = "io"
    /\ lk' = Advance(t)
    /\ UNCHANGED <<state, child, childLock, stdin_writer, pending, sent,
                   watchdog_shutdown, shutdownCh, last_pong, now, nextId, proc, inbox,
                   readers, wd, sw, hc, caller, user, registered, written, last_call,
                   poisoned, outbox, log_level>>

NextLocks ==
    \/ \E t \in LockThreads : \E prog \in DOMAIN LockPrograms : lk_begin(t, prog)
    \/ \E t \in LockThreads : lk_acquire(t)
    \/ \E t \in LockThreads : lk_release(t)
    \/ \E t \in LockThreads : lk_io(t)

SpecLocks == Init /\ [][NextLocks]_vars

\* A thread that keeps finding the mutex free gets it, and a guard is dropped
\* when the thread comes to the end of its scope.  The wait for a process that
\* was sent SIGKILL ends; write_all on the pipe of a worker that lives and does
\* not read its stdin does not return, so nothing obliges it to.
FairSpecLocks ==
    /\ SpecLocks
    /\ \A t \in LockThreads :
          /\ SF_vars(lk_acquire(t))
          /\ WF_vars(lk_release(t))
          /\ WF_vars(lk_io(t) /\ NextOp(t) = Io("wait"))

\* t is blocked in lock(): the mutex it wants is held
Waiting(t) == Running_(t) /\ NextOp(t)[1] = "acq" /\ Holders(NextOp(t)[2]) # {}

Blocker(t) == CHOOSE h \in Holders(NextOp(t)[2]) : TRUE

\* following who waits for whom from t, a thread that is not blocked is met within n steps
RECURSIVE ChainEnds(_, _)
ChainEnds(t, n) ==
    IF ~Waiting(t) THEN TRUE
    ELSE IF n = 0 THEN FALSE
    ELSE ChainEnds(Blocker(t), n - 1)

\* the order in which kill nests its locks
LockRank == [child |-> 1, stdin |-> 2, state |-> 3]

\* every mutex has at most one holder; a thread acquires a mutex while it
\* holds another only in kill, which holds child while it takes stdin and
\* then state; and from every blocked thread the chain of holders it waits
\* for ends at a thread that is not blocked on a mutex, so that no set of
\* threads waits in a cycle
NoLockCycle ==
    /\ [](\A l \in AllLocks : Cardinality(Holders(l)) <= 1)
    /\ [](\A t \in LockThreads : ChainEnds(t, Cardinality(LockThreads)))
    /\ [][\A t \in LockThreads :
            (Running_(t) /\ lk'[t] # lk[t] /\ NextOp(t)[1] = "acq" /\ HeldBy(t) # {})
               => /\ lk[t].prog = "kill"
                  /\ HeldBy(t) = {"child"}
                  /\ NextOp(t)[2] \in {"stdin", "state"}
                  /\ \A h \in HeldBy(t) : LockRank[h] < LockRank[NextOp(t)[2]]]_vars

\* C29: the threads cannot deadlock on the mutexes: a thread acquires a mutex
\* while it holds another only in kill, in the order child, stdin, state, so
\* that every thread that waits for a mutex obtains it.
C29_EveryWaiterObtains == \A t \in LockThreads : Waiting(t) ~> ~Waiting(t)

====
